---------------------------- MODULE Spec2Model ----------------------------
(***************************************************************************)
(* A model of s100py's generic S-100 layer (src/s100py/s100.py):           *)
(*   - the instanceChunking / chunking attribute setters,                  *)
(*   - FeatureInstanceBase.write, which reads back the chunk geometry of   *)
(*     the "values" datasets it has just written,                          *)
(*   - S100Root.write, which copies instanceChunking onto Group_F,         *)
(*   - FeatureInformation's datatype-driven fillValue/lower/upper coercion.*)
(*                                                                         *)
(* Python strings that are formatted or parsed are sequences of            *)
(* one-character strings, so that formatting and parsing are computed, not *)
(* assumed.  A Python dict (_attributes) is a function whose DOMAIN is the *)
(* set of keys present.                                                    *)
(***************************************************************************)
EXTENDS Integers, Sequences, FiniteSets, TLC

VARIABLES
    instance,   \* a FeatureInstanceBase object: its _attributes and its data groups
    h5,         \* the HDF5 group object that instance is written to
    dataset,    \* the _attributes of a FeatureInformationDataset object (Chunking mixin)
    root,       \* an S100Root object: Group_F's featureCode and the feature containers
    groupF,     \* feature name -> _attributes of its feature-information dataset in Group_F
    featInfo,   \* the _attributes of a FeatureInformation record
    ret,        \* what the last typed accessor returned
    rootAttrs,  \* the _attributes of an S100Root object
    dataFile,   \* an S102File object: what hangs below its root
    metadataDefault,    \* the default metadata dict of from_gdal and that of from_bag
    last        \* what the last operation did: its I/O trace and its outcome

vars == <<instance, h5, dataset, root, groupF, featInfo, ret, rootAttrs, dataFile, metadataDefault, last>>
instanceVars == <<instance, h5, dataset>>
rootVars == <<root, groupF>>
rangeVars == <<featInfo, ret>>
s102Vars == <<rootAttrs, dataFile, metadataDefault>>

---------------------------------------------------------------------------
(* Bounds of the model *)

MaxGrp == 2     \* data groups per feature instance

---------------------------------------------------------------------------
(* Python values *)

EmptyDict == [k \in {} |-> <<>>]                       \* {}
Put(d, k, v) == [j \in DOMAIN d \cup {k} |-> IF j = k THEN v ELSE d[j]]   \* d[k] = v
Has(d, k) == k \in DOMAIN d                            \* k in d

None == <<>>            \* Python None where a chunks tuple is expected (h5py never returns an empty tuple)

\* the default metadata dicts as the def statements make them: metadata = {}
NoDefaults == [from_gdal |-> EmptyDict, from_bag |-> EmptyDict]

\* a new S102File: nothing populated
EmptyFile ==
    [rows |-> <<>>,         \* root.feature_information.bathymetry_coverage_dataset
     tracking |-> <<>>,     \* root.feature_information.tracking_list_coverage
     container |-> EmptyDict,   \* root.bathymetry_coverage
     coverages |-> <<>>,    \* root.bathymetry_coverage.bathymetry_coverage
     io |-> <<>>]           \* calls of data_file.write() and data_file.flush()

DigitChars == <<"0", "1", "2", "3", "4", "5", "6", "7", "8", "9">>

\* str(n) for a Python int
RECURSIVE str_nat(_)
str_nat(n) == IF n < 10 THEN <<DigitChars[n + 1]>>
              ELSE str_nat(n \div 10) \o <<DigitChars[(n % 10) + 1]>>

str_int(n) == IF n < 0 THEN <<"-">> \o str_nat(0 - n) ELSE str_nat(n)

\* sep.join(parts), parts a sequence of strings
RECURSIVE join(_, _)
join(sep, parts) ==
    IF Len(parts) = 0 THEN <<>>
    ELSE IF Len(parts) = 1 THEN parts[1]
    ELSE parts[1] \o sep \o join(sep, Tail(parts))

\* A value handed to a chunking setter: a str, or an iterable of ints
StrVal(s) == [t |-> "str", s |-> s, n |-> <<>>]
TupleVal(n) == [t |-> "tuple", s |-> <<>>, n |-> n]
NoArg == [t |-> "none", s |-> <<>>, n |-> <<>>]

\* A value handed to, or returned by, a range attribute: an int, a float
\* (x counts tenths: 12000.0 is 120000) or a str
PyInt(x) == [t |-> "int", s |-> <<>>, x |-> x]
PyFloat(x) == [t |-> "float", s |-> <<>>, x |-> x]
PyStr(s) == [t |-> "str", s |-> s, x |-> 0]
PyNone == [t |-> "none", s |-> <<>>, x |-> 0]

---------------------------------------------------------------------------
(* Inputs *)

Features == {"BathymetryCoverage", "TrackingListCoverage"}

\* chunk geometries the container layer may choose for a values dataset
ChunkGeoms == {<<150, 200>>, <<10, 10>>}

\* values a caller hands to the setters
ChunkInputs == {StrVal(<<"5", "0">>), TupleVal(<<150, 200>>), TupleVal(<<50>>)}

---------------------------------------------------------------------------
(* Attribute setters of s100.py *)

instance_chunking_attribute_name == "instanceChunking"
chunking_attribute_name == "chunking"

\* FeatureInstanceBase.instance_chunking setter: returns the new _attributes
instance_chunking_spaced(attrs, val) ==
    Put(attrs, instance_chunking_attribute_name,
        IF val.t = "str" THEN val.s
        ELSE join(<<",", " ">>, [i \in 1..Len(val.n) |-> str_int(val.n[i])]))

instance_chunking(attrs, val) ==
    Put(attrs, instance_chunking_attribute_name,
        IF val.t = "str" THEN val.s
        ELSE join(<<",">>, [i \in 1..Len(val.n) |-> str_int(val.n[i])]))

\* FeatureInstanceBase.instance_chunking_create: the setter applied to str()
instance_chunking_create(attrs) == instance_chunking(attrs, StrVal(<<>>))

\* Chunking.chunking setter
chunking(attrs, val) ==
    Put(attrs, chunking_attribute_name,
        IF val.t = "str" THEN val.s
        ELSE join(<<",">>, [i \in 1..Len(val.n) |-> str_int(val.n[i])]))

\* Chunking.chunking_create
chunking_create(attrs) == chunking(attrs, StrVal(<<>>))

---------------------------------------------------------------------------
(* Writing a feature instance *)

\* I/O events of a write
AttrsEvent(attrs) == [ev |-> "attrs", k |-> 0, attrs |-> attrs]
GroupEvent(k) == [ev |-> "group", k |-> k, attrs |-> EmptyDict]
DatasetEvent(k) == [ev |-> "dataset", k |-> k, attrs |-> EmptyDict]

\* S1xxAttributesBase.write_simple_attributes: the object's attributes are
\* set on the HDF5 object
write_simple_attributes(attrs, hdf5_object) ==
    [hdf5_object EXCEPT !.attrs =
        [k \in DOMAIN hdf5_object.attrs \cup DOMAIN attrs |->
            IF k \in DOMAIN attrs THEN attrs[k] ELSE hdf5_object.attrs[k]]]

\* the child groups of the HDF5 object after data groups 1..k were written:
\* group k is created if missing and its values dataset, when the data group
\* has one, is (re)written with the geometry the container layer chooses
RECURSIVE write_groups(_, _, _)
write_groups(groups, h5groups, k) ==
    IF k = 0 THEN h5groups
    ELSE LET prev == write_groups(groups, h5groups, k - 1)
             old == IF k <= Len(prev) THEN prev[k] ELSE None
             new == IF groups[k].values # None THEN groups[k].values ELSE old
         IN  IF k <= Len(prev) THEN [prev EXCEPT ![k] = new] ELSE Append(prev, new)

RECURSIVE group_events(_, _)
group_events(groups, k) ==
    IF k = 0 THEN <<>>
    ELSE group_events(groups, k - 1) \o <<GroupEvent(k)>>
         \o (IF groups[k].values # None THEN <<DatasetEvent(k)>> ELSE <<>>)

\* S1xxAttributesBase.write: the node's simple attributes, then each child
S1xx_write(obj, hdf5_object) ==
    LET flushed == write_simple_attributes(obj.attrs, hdf5_object)
    IN  [h5 |-> [flushed EXCEPT !.groups = write_groups(obj.groups, hdf5_object.groups, Len(obj.groups))],
         io |-> <<AttrsEvent(obj.attrs)>> \o group_events(obj.groups, Len(obj.groups))]

\* hdf5_object[<group k> + '/values'].chunks, None standing for the KeyError
\* that is passed over
values_chunks(hdf5_object, k) ==
    IF k <= Len(hdf5_object.groups) THEN hdf5_object.groups[k] ELSE None

\* the loop of FeatureInstanceBase.write over the data groups 1..k
RECURSIVE first_chunking(_, _, _)
first_chunking(hdf5_object, groups, k) ==
    IF k = 0 THEN None
    ELSE LET sofar == first_chunking(hdf5_object, groups, k - 1)
         IN  IF sofar # None THEN sofar ELSE values_chunks(hdf5_object, k)

discover_chunking_first(hdf5_object, groups) == first_chunking(hdf5_object, groups, Len(groups))

RECURSIVE scan_chunking(_, _, _)
scan_chunking(hdf5_object, groups, k) ==
    IF k = 0 THEN None
    ELSE LET sofar == scan_chunking(hdf5_object, groups, k - 1)
             found == values_chunks(hdf5_object, k)
         IN  IF found # None THEN found ELSE sofar

discover_chunking(hdf5_object, groups) == scan_chunking(hdf5_object, groups, Len(groups))

\* the tail of FeatureInstanceBase.write: w is the outcome of super().write
store_chunking_always(obj, w, found) ==
    LET attrs == IF found # None THEN instance_chunking(obj.attrs, TupleVal(found)) ELSE obj.attrs
    IN  [obj |-> [obj EXCEPT !.attrs = attrs],
         h5 |-> write_simple_attributes(attrs, w.h5),
         io |-> w.io \o <<AttrsEvent(attrs)>>]

store_chunking_rewrite(obj, w, found) ==
    IF found # None
    THEN LET attrs == instance_chunking(obj.attrs, TupleVal(found))
             again == S1xx_write([obj EXCEPT !.attrs = attrs], w.h5)
         IN  [obj |-> [obj EXCEPT !.attrs = attrs], h5 |-> again.h5, io |-> w.io \o again.io]
    ELSE [obj |-> obj, h5 |-> w.h5, io |-> w.io]

store_chunking(obj, w, found) ==
    IF found # None
    THEN LET attrs == instance_chunking(obj.attrs, TupleVal(found))
         IN  [obj |-> [obj EXCEPT !.attrs = attrs],
              h5 |-> write_simple_attributes(attrs, w.h5),
              io |-> w.io \o <<AttrsEvent(attrs)>>]
    ELSE [obj |-> obj, h5 |-> w.h5, io |-> w.io]

\* FeatureInstanceBase.write
FeatureInstanceBase_write(obj, hdf5_object) ==
    LET w == S1xx_write(obj, hdf5_object)
    IN  store_chunking(obj, w, discover_chunking(w.h5, obj.groups))

---------------------------------------------------------------------------
(* The feature instance on its own *)

Outcome(op, arg, before, io, err) == [op |-> op, arg |-> arg, before |-> before, io |-> io, err |-> err]
Done(op, arg, before, io) == Outcome(op, arg, before, io, "none")

InitInstance ==
    /\ instance = [attrs |-> EmptyDict, groups |-> <<>>]
    /\ h5 = [attrs |-> EmptyDict, groups |-> <<>>]
    /\ dataset = EmptyDict
    /\ root = [featureCode |-> <<>>, containers |-> [f \in Features |-> <<>>]]
    /\ groupF = [f \in Features |-> EmptyDict]
    /\ featInfo = EmptyDict
    /\ ret = PyNone
    /\ rootAttrs = EmptyDict
    /\ dataFile = EmptyFile
    /\ metadataDefault = NoDefaults
    /\ last = Done("init", NoArg, EmptyDict, <<>>)

\* instance.instance_chunking = val
InstanceChunkingSet ==
    \E val \in ChunkInputs :
        /\ instance' = [instance EXCEPT !.attrs = instance_chunking(@, val)]
        /\ last' = Done("set", val, instance.attrs, <<>>)
        /\ UNCHANGED <<h5, dataset, rootVars, rangeVars, s102Vars>>

\* instance.instance_chunking_create()
InstanceChunkingCreate ==
    /\ instance' = [instance EXCEPT !.attrs = instance_chunking_create(@)]
    /\ last' = Done("create", NoArg, instance.attrs, <<>>)
    /\ UNCHANGED <<h5, dataset, rootVars, rangeVars, s102Vars>>

\* instance.instance_chunking = instance.instance_chunking
InstanceChunkingReadBack ==
    /\ Has(instance.attrs, instance_chunking_attribute_name)
    /\ instance' = [instance EXCEPT !.attrs =
                        instance_chunking(@, StrVal(instance.attrs[instance_chunking_attribute_name]))]
    /\ last' = Done("readback", NoArg, instance.attrs, <<>>)
    /\ UNCHANGED <<h5, dataset, rootVars, rangeVars, s102Vars>>

\* a new data group is appended to the instance's list
AppendGroup ==
    /\ Len(instance.groups) < MaxGrp
    /\ instance' = [instance EXCEPT !.groups = Append(@, [values |-> None])]
    /\ last' = Done("append", NoArg, instance.attrs, <<>>)
    /\ UNCHANGED <<h5, dataset, rootVars, rangeVars, s102Vars>>

\* data group k gets a values grid; geom is the chunk geometry the
\* container layer will choose for it
ValuesCreate ==
    \E k \in 1..Len(instance.groups), geom \in ChunkGeoms :
        /\ instance.groups[k].values = None
        /\ instance' = [instance EXCEPT !.groups[k].values = geom]
        /\ last' = Done("values", NoArg, instance.attrs, <<>>)
        /\ UNCHANGED <<h5, dataset, rootVars, rangeVars, s102Vars>>

\* instance.write(hdf5_object)
InstanceWrite ==
    LET r == FeatureInstanceBase_write(instance, h5)
    IN  /\ instance' = r.obj
        /\ h5' = r.h5
        /\ last' = Done("write", NoArg, instance.attrs, r.io)
        /\ UNCHANGED <<dataset, rootVars, rangeVars, s102Vars>>

\* dataset.chunking = val
ChunkingSet ==
    \E val \in ChunkInputs :
        /\ dataset' = chunking(dataset, val)
        /\ last' = Done("dset", val, dataset, <<>>)
        /\ UNCHANGED <<instance, h5, rootVars, rangeVars, s102Vars>>

\* dataset.chunking_create()
ChunkingCreate ==
    /\ dataset' = chunking_create(dataset)
    /\ last' = Done("dcreate", NoArg, dataset, <<>>)
    /\ UNCHANGED <<instance, h5, rootVars, rangeVars, s102Vars>>

\* dataset.chunking = dataset.chunking
ChunkingReadBack ==
    /\ Has(dataset, chunking_attribute_name)
    /\ dataset' = chunking(dataset, StrVal(dataset[chunking_attribute_name]))
    /\ last' = Done("dreadback", NoArg, dataset, <<>>)
    /\ UNCHANGED <<instance, h5, rootVars, rangeVars, s102Vars>>

NextInstance ==
    \/ InstanceChunkingSet
    \/ InstanceChunkingCreate
    \/ InstanceChunkingReadBack
    \/ AppendGroup
    \/ ValuesCreate
    \/ InstanceWrite
    \/ ChunkingSet
    \/ ChunkingCreate
    \/ ChunkingReadBack

Spec == InitInstance /\ [][NextInstance]_vars

---------------------------------------------------------------------------
(* Writing the root *)

\* a feature code of Group_F's featureCode array: a bytes or a str object
Bytes(name) == [form |-> "bytes", name |-> name]
Text(name) == [form |-> "text", name |-> name]

\* the keys (str) of get_standard_properties_mapping() that name containers
\* of the root: the feature containers and Group_F itself
\* (feature_information_attribute_name); and those that name
\* feature-information datasets of Group_F
RootProperties == Features \cup {"Group_F"}
GroupFProperties == Features

\* featureCode arrays a file may carry
FeatureCodeInputs ==
    { <<Bytes("BathymetryCoverage"), Bytes("TrackingListCoverage")>>,
      <<Text("BathymetryCoverage"), Text("TrackingListCoverage")>>,
      <<Bytes("TrackingListCoverage"), Text("BathymetryCoverage")>>,
      <<Text("BathymetryCoverage")>>,
      <<Bytes("BathymetryCoverage"), Text("SurfaceCurrent")>>,
      <<Bytes("SurfaceCurrent"), Bytes("BathymetryCoverage")>>,
      <<Bytes("Group_F"), Bytes("BathymetryCoverage")>> }

\* data groups a feature instance is populated with when it is created
InstanceGroupInputs == { <<>>, <<[values |-> <<150, 200>>]>> }

\* values a caller sets instanceChunking to, and a Group_F chunking to
RootChunkInputs == { TupleVal(<<10, 10>>), StrVal(<<"5", "0">>) }
GroupFChunkInputs == { StrVal(<<"5", "0">>) }

\* mapping[feat_name], and on KeyError mapping[feat_name.decode()]: a bytes
\* key is never equal to a str key; str has no decode()
lookup_no_retry(mapping, feat_name) ==
    IF feat_name.form = "text" /\ feat_name.name \in mapping
    THEN [err |-> "none", name |-> feat_name.name]
    ELSE [err |-> "KeyError", name |-> feat_name.name]

lookup(mapping, feat_name) ==
    IF feat_name.form = "text" /\ feat_name.name \in mapping
    THEN [err |-> "none", name |-> feat_name.name]
    ELSE IF feat_name.form = "text"
         THEN [err |-> "AttributeError", name |-> feat_name.name]
         ELSE IF feat_name.name \in mapping
              THEN [err |-> "none", name |-> feat_name.name]
              ELSE [err |-> "KeyError", name |-> feat_name.name]

\* the loop over a container's instances 1..k: <<>> is None, <<s>> the string s
RECURSIVE first_instance_chunking(_, _)
first_instance_chunking(list_of_features, k) ==
    IF k = 0 THEN <<>>
    ELSE LET sofar == first_instance_chunking(list_of_features, k - 1)
         IN  IF sofar # <<>> THEN sofar
             ELSE IF Has(list_of_features[k].attrs, instance_chunking_attribute_name)
                  THEN <<list_of_features[k].attrs[instance_chunking_attribute_name]>>
                  ELSE <<>>

RECURSIVE instance_chunking_of(_, _)
instance_chunking_of(list_of_features, k) ==
    IF k = 0 THEN <<>>
    ELSE IF Has(list_of_features[k].attrs, instance_chunking_attribute_name)
         THEN <<list_of_features[k].attrs[instance_chunking_attribute_name]>>
         ELSE instance_chunking_of(list_of_features, k - 1)

\* the instances of the lists of a container of the root: Group_F has no
\* list of feature instances
feature_list(containers, python_name) ==
    IF python_name \in DOMAIN containers THEN containers[python_name] ELSE <<>>

\* an HDF5 group object with nothing in it
EmptyGroup == [attrs |-> EmptyDict, groups |-> <<>>]

\* S1xxAttributesBase.write on the root: every node is written, each feature
\* instance by its own write.  A values dataset is in the file exactly when
\* its data group holds a values grid.
S1xx_write_root(containers) ==
    [f \in DOMAIN containers |->
        [i \in 1..Len(containers[f]) |-> FeatureInstanceBase_write(containers[f][i], EmptyGroup).obj]]

RootEvent == [ev |-> "root", k |-> 0, attrs |-> EmptyDict]
FeatureInfoEvent(j, attrs) == [ev |-> "groupf", k |-> j, attrs |-> attrs]

\* one round of the loop of S100Root.write, for feature code j; st carries
\* groupF, the I/O trace and the error raised so far
copy_chunking_skip(containers, feature_code, st, j) ==
    IF st.err # "none" THEN st
    ELSE LET found == lookup(RootProperties, feature_code[j])
         IN  IF found.err # "none" THEN [st EXCEPT !.err = found.err] ELSE st

\* the round with the chunking found for the preceding feature code carried
\* into this one
copy_chunking_carried(containers, feature_code, st, j) ==
    IF st.err # "none" THEN st
    ELSE LET found == lookup(RootProperties, feature_code[j])
         IN  IF found.err # "none" THEN [st EXCEPT !.err = found.err]
             ELSE LET list_of_features == feature_list(containers, found.name)
                      own == instance_chunking_of(list_of_features, Len(list_of_features))
                      earlier == IF j = 1 THEN <<>>
                                 ELSE feature_list(containers, feature_code[j - 1].name)
                      chunks == IF own # <<>> THEN own ELSE instance_chunking_of(earlier, Len(earlier))
                  IN  IF chunks = <<>> THEN st
                      ELSE LET groupf == lookup(GroupFProperties, feature_code[j])
                           IN  IF groupf.err # "none" THEN [st EXCEPT !.err = groupf.err]
                               ELSE LET attrs == chunking(st.groupF[groupf.name], StrVal(chunks[1]))
                                    IN  [groupF |-> [st.groupF EXCEPT ![groupf.name] = attrs],
                                         io |-> st.io \o <<FeatureInfoEvent(j, attrs)>>,
                                         err |-> "none"]

copy_chunking(containers, feature_code, st, j) ==
    IF st.err # "none" THEN st
    ELSE LET found == lookup(RootProperties, feature_code[j])
         IN  IF found.err # "none" THEN [st EXCEPT !.err = found.err]
             ELSE LET list_of_features == feature_list(containers, found.name)
                      chunks == instance_chunking_of(list_of_features, Len(list_of_features))
                  IN  IF chunks = <<>> THEN st
                      ELSE LET groupf == lookup(GroupFProperties, feature_code[j])
                           IN  IF groupf.err # "none" THEN [st EXCEPT !.err = groupf.err]
                               ELSE LET attrs == chunking(st.groupF[groupf.name], StrVal(chunks[1]))
                                    IN  [groupF |-> [st.groupF EXCEPT ![groupf.name] = attrs],
                                         io |-> st.io \o <<FeatureInfoEvent(j, attrs)>>,
                                         err |-> "none"]

RECURSIVE copy_all(_, _, _, _)
copy_all(containers, feature_code, st, j) ==
    IF j = 0 THEN st
    ELSE copy_chunking(containers, feature_code, copy_all(containers, feature_code, st, j - 1), j)

\* S100Root.write with a failed write undone
S100Root_write_undone(rt, gf) ==
    LET written == S1xx_write_root(rt.containers)
        st == copy_all(written, rt.featureCode, [groupF |-> gf, io |-> <<RootEvent>>, err |-> "none"],
                       Len(rt.featureCode))
    IN  IF st.err # "none" THEN [root |-> rt, groupF |-> gf, io |-> <<>>, err |-> st.err]
        ELSE [root |-> [rt EXCEPT !.containers = written], groupF |-> st.groupF, io |-> st.io, err |-> st.err]

\* S100Root.write
S100Root_write(rt, gf) ==
    LET written == S1xx_write_root(rt.containers)
        st == copy_all(written, rt.featureCode, [groupF |-> gf, io |-> <<RootEvent>>, err |-> "none"],
                       Len(rt.featureCode))
    IN  [root |-> [rt EXCEPT !.containers = written], groupF |-> st.groupF, io |-> st.io, err |-> st.err]

---------------------------------------------------------------------------
(* The root with its feature containers *)

MaxInst == 2    \* feature instances in the file

NumInstances == Len(root.containers["BathymetryCoverage"]) + Len(root.containers["TrackingListCoverage"])

InitRoot ==
    /\ instance = [attrs |-> EmptyDict, groups |-> <<>>]
    /\ h5 = [attrs |-> EmptyDict, groups |-> <<>>]
    /\ dataset = EmptyDict
    /\ \E fc \in FeatureCodeInputs :
          root = [featureCode |-> fc, containers |-> [f \in Features |-> <<>>]]
    /\ groupF = [f \in Features |-> EmptyDict]
    /\ featInfo = EmptyDict
    /\ ret = PyNone
    /\ rootAttrs = EmptyDict
    /\ dataFile = EmptyFile
    /\ metadataDefault = NoDefaults
    /\ last = Done("init", NoArg, EmptyDict, <<>>)

\* a feature instance is appended to a container and given its data groups
AppendInstance ==
    \E f \in Features, groups \in InstanceGroupInputs :
        /\ NumInstances < MaxInst
        /\ root' = [root EXCEPT !.containers[f] = Append(@, [attrs |-> EmptyDict, groups |-> groups])]
        /\ last' = Done("append", NoArg, EmptyDict, <<>>)
        /\ UNCHANGED <<groupF, instanceVars, rangeVars, s102Vars>>

\* root.<container>.<list>[i].instance_chunking = val
FeatureChunkingSet ==
    \E f \in Features, val \in RootChunkInputs :
        \E i \in 1..Len(root.containers[f]) :
            /\ root' = [root EXCEPT !.containers[f][i].attrs = instance_chunking(@, val)]
            /\ last' = Done("set", val, EmptyDict, <<>>)
            /\ UNCHANGED <<groupF, instanceVars, rangeVars, s102Vars>>

\* root.feature_information.<dataset>.chunking = val
GroupFChunkingSet ==
    \E f \in Features, val \in GroupFChunkInputs :
        /\ groupF' = [groupF EXCEPT ![f] = chunking(@, val)]
        /\ last' = Done("dset", val, EmptyDict, <<>>)
        /\ UNCHANGED <<root, instanceVars, rangeVars, s102Vars>>

\* root.write(group_object)
RootWrite ==
    LET r == S100Root_write(root, groupF)
    IN  /\ root' = r.root
        /\ groupF' = r.groupF
        /\ last' = Outcome("rootwrite", NoArg, EmptyDict, r.io, r.err)
        /\ UNCHANGED <<instanceVars, rangeVars, s102Vars>>

NextRoot ==
    \/ AppendInstance
    \/ FeatureChunkingSet
    \/ GroupFChunkingSet
    \/ RootWrite

SpecRoot == InitRoot /\ [][NextRoot]_vars

---------------------------------------------------------------------------
(* Python's int(), float() and str() on the values of the model *)

isdigit(c) == \E d \in 1..10 : DigitChars[d] = c
digit(c) == (CHOOSE d \in 1..10 : DigitChars[d] = c) - 1

RECURSIVE int_of_digits(_)
int_of_digits(s) ==
    IF Len(s) = 0 THEN 0
    ELSE int_of_digits(SubSeq(s, 1, Len(s) - 1)) * 10 + digit(s[Len(s)])

all_digits(s) == \A i \in 1..Len(s) : isdigit(s[i])

signed(s) == Len(s) > 0 /\ s[1] \in {"-", "+"}
unsigned_part(s) == IF signed(s) THEN Tail(s) ELSE s
sign_of(s) == IF Len(s) > 0 /\ s[1] = "-" THEN 0 - 1 ELSE 1

\* int(s) for a str: an optional sign and one or more digits
int_from_str(s) ==
    LET body == unsigned_part(s)
    IN  IF Len(body) > 0 /\ all_digits(body)
        THEN [err |-> "none", x |-> sign_of(s) * int_of_digits(body)]
        ELSE [err |-> "ValueError", x |-> 0]

\* float(s) for a str, in tenths: an optional sign, digits, and an optional
\* point followed by digits; no string of the model has a second decimal
float_from_str(s) ==
    LET body == unsigned_part(s)
        dots == {i \in 1..Len(body) : body[i] = "."}
        dot == IF dots = {} THEN Len(body) + 1 ELSE CHOOSE i \in dots : TRUE
        whole == SubSeq(body, 1, dot - 1)
        frac == SubSeq(body, dot + 1, Len(body))
    IN  IF Cardinality(dots) <= 1 /\ all_digits(whole) /\ all_digits(frac) /\ Len(whole) + Len(frac) > 0
        THEN [err |-> "none",
              x |-> sign_of(s) * (int_of_digits(whole) * 10 + (IF Len(frac) > 0 THEN digit(frac[1]) ELSE 0))]
        ELSE [err |-> "ValueError", x |-> 0]

\* str(x) for a float of x tenths: 120000 gives "12000.0", -15 gives "-1.5"
str_float(x) ==
    LET a == IF x < 0 THEN 0 - x ELSE x
    IN  (IF x < 0 THEN <<"-">> ELSE <<>>) \o str_nat(a \div 10) \o <<".", DigitChars[(a % 10) + 1]>>

\* int(val): a float is truncated toward zero
py_int(val) ==
    CASE val.t = "int" -> [err |-> "none", x |-> val.x]
      [] val.t = "float" -> [err |-> "none", x |-> IF val.x < 0 THEN 0 - ((0 - val.x) \div 10) ELSE val.x \div 10]
      [] val.t = "str" -> int_from_str(val.s)

\* float(val), in tenths
py_float(val) ==
    CASE val.t = "int" -> [err |-> "none", x |-> val.x * 10]
      [] val.t = "float" -> [err |-> "none", x |-> val.x]
      [] val.t = "str" -> float_from_str(val.s)

\* str(val)
py_str(val) ==
    CASE val.t = "int" -> str_int(val.x)
      [] val.t = "float" -> str_float(val.x)
      [] val.t = "str" -> val.s

---------------------------------------------------------------------------
(* FeatureInformation: datatype and the range attributes *)

fill_value_attribute_name == "fillValue"
datatype_attribute_name == "datatype"
lower_attribute_name == "lower"
upper_attribute_name == "upper"

\* the h5py.h5t constants that are Python ints: the HDF5 class codes
h5t_class_codes ==
    [c \in (0 - 1)..10 |->
        CASE c = 0 - 1 -> "NO_CLASS" [] c = 0 -> "INTEGER" [] c = 1 -> "FLOAT" [] c = 2 -> "TIME"
          [] c = 3 -> "STRING" [] c = 4 -> "BITFIELD" [] c = 5 -> "OPAQUE" [] c = 6 -> "COMPOUND"
          [] c = 7 -> "REFERENCE" [] c = 8 -> "ENUM" [] c = 9 -> "VLEN" [] c = 10 -> "ARRAY"]

\* H5T_CLASS_T, keyed by the name of the h5py.h5t constant
H5T_CLASS_T ==
    [c \in {"NO_CLASS", "INTEGER", "FLOAT", "TIME", "STRING", "BITFIELD", "OPAQUE", "COMPOUND",
            "REFERENCE", "ENUM", "VLEN", "ARRAY", "NATIVE_INT8", "NATIVE_UINT8", "NATIVE_INT16",
            "NATIVE_UINT16", "NATIVE_INT32", "NATIVE_UINT32", "NATIVE_INT64", "NATIVE_UINT64", "C_S1"} |->
        IF c = "FLOAT" THEN "H5T_NATIVE_FLOAT" ELSE "H5T_" \o c]

\* _H5T_Types: the datatype names of each Python type
_H5T_Types_no_alias ==
    [int |-> {H5T_CLASS_T[v] : v \in {"INTEGER", "NATIVE_INT8", "NATIVE_UINT8", "NATIVE_INT16", "NATIVE_UINT16",
                                      "NATIVE_INT32", "NATIVE_UINT32", "NATIVE_INT64", "NATIVE_UINT64"}},
     float |-> {H5T_CLASS_T[v] : v \in {"FLOAT"}},
     str |-> {H5T_CLASS_T[v] : v \in {"C_S1", "STRING"}}]

_H5T_Types ==
    [int |-> {H5T_CLASS_T[v] : v \in {"INTEGER", "NATIVE_INT8", "NATIVE_UINT8", "NATIVE_INT16", "NATIVE_UINT16",
                                      "NATIVE_INT32", "NATIVE_UINT32", "NATIVE_INT64", "NATIVE_UINT64"}},
     float |-> {H5T_CLASS_T[v] : v \in {"FLOAT"}} \cup {"H5T_FLOAT"},
     str |-> {H5T_CLASS_T[v] : v \in {"C_S1", "STRING"}}]

\* a value handed to the datatype setter: an int or a str
DtInt(x) == [t |-> "int", name |-> "", x |-> x]
DtStr(name) == [t |-> "str", name |-> name, x |-> 0]

\* the setter with the range attributes dropped for the new datatype
datatype_resetting(attrs, val) ==
    LET kept == [k \in DOMAIN attrs \ {"fillValue", "lower", "upper"} |-> attrs[k]]
    IN  IF val.t = "int"
        THEN IF val.x \in DOMAIN h5t_class_codes
             THEN [attrs |-> Put(kept, "datatype", H5T_CLASS_T[h5t_class_codes[val.x]]), err |-> "none"]
             ELSE [attrs |-> attrs, err |-> "KeyError"]
        ELSE [attrs |-> Put(kept, "datatype", val.name), err |-> "none"]

\* FeatureInformation.datatype setter: returns the new _attributes, or the
\* error raised
datatype(attrs, val) ==
    IF val.t = "int"
    THEN IF val.x \in DOMAIN h5t_class_codes
         THEN [attrs |-> Put(attrs, datatype_attribute_name, H5T_CLASS_T[h5t_class_codes[val.x]]), err |-> "none"]
         ELSE [attrs |-> attrs, err |-> "KeyError"]
    ELSE [attrs |-> Put(attrs, datatype_attribute_name, val.name), err |-> "none"]

\* FeatureInformation.datatype_create: the setter applied to str()
datatype_create(attrs) == datatype(attrs, DtStr(""))

\* FeatureInformation._python_datatype
_python_datatype(attrs) ==
    IF ~Has(attrs, datatype_attribute_name) THEN "str"
    ELSE IF attrs[datatype_attribute_name] \in _H5T_Types.int THEN "int"
    ELSE IF attrs[datatype_attribute_name] \in _H5T_Types.float THEN "float"
    ELSE "str"

\* FeatureInformation._convert_from_string_based_on_datatype
_convert_from_string_based_on_datatype(attrs, str_val) ==
    LET use_datatype == _python_datatype(attrs)
    IN  IF use_datatype = "int"
        THEN LET r == int_from_str(str_val)
             IN  [err |-> r.err, val |-> IF r.err = "none" THEN PyInt(r.x) ELSE PyNone]
        ELSE IF use_datatype = "float"
        THEN LET r == float_from_str(str_val)
             IN  [err |-> r.err, val |-> IF r.err = "none" THEN PyFloat(r.x) ELSE PyNone]
        ELSE [err |-> "none", val |-> PyStr(str_val)]

\* FeatureInformation._convert_to_string_based_on_datatype
_convert_to_string_keep_decimal(attrs, val) ==
    LET use_datatype == _python_datatype(attrs)
    IN  IF use_datatype = "int"
        THEN LET r == py_int(val)
             IN  [err |-> r.err, s |-> IF r.err = "none" THEN str_int(r.x) ELSE <<>>]
        ELSE IF use_datatype = "float"
        THEN LET r == py_float(val)
             IN  [err |-> r.err, s |-> IF r.err = "none" THEN str_float(r.x) ELSE <<>>]
        ELSE [err |-> "none", s |-> py_str(val)]

_convert_to_string_based_on_datatype(attrs, val) ==
    LET use_datatype == _python_datatype(attrs)
    IN  IF use_datatype = "int"
        THEN LET r == py_int(val)
             IN  [err |-> r.err, s |-> IF r.err = "none" THEN str_int(r.x) ELSE <<>>]
        ELSE IF use_datatype = "float"
        THEN LET r == py_float(val)
                 str_val == IF r.err = "none" THEN str_float(r.x) ELSE <<>>
                 n == Len(str_val)
             IN  [err |-> r.err,
                  s |-> IF n >= 2 /\ SubSeq(str_val, n - 1, n) = <<".", "0">>
                        THEN SubSeq(str_val, 1, n - 2)
                        ELSE str_val]
        ELSE [err |-> "none", s |-> py_str(val)]

\* the setter of a range attribute: a failed conversion leaves _attributes alone
range_set(attrs, attribute_name, val) ==
    LET r == _convert_to_string_based_on_datatype(attrs, val)
    IN  IF r.err = "none" THEN [attrs |-> Put(attrs, attribute_name, r.s), err |-> "none"]
        ELSE [attrs |-> attrs, err |-> r.err]

\* the typed accessor of a range attribute
range_get(attrs, attribute_name) ==
    IF Has(attrs, attribute_name)
    THEN _convert_from_string_based_on_datatype(attrs, attrs[attribute_name])
    ELSE [err |-> "KeyError", val |-> PyNone]

\* fill_value_type(), lower_type(), upper_type() called: int(), float(), str()
range_type(attrs) ==
    LET use_datatype == _python_datatype(attrs)
    IN  IF use_datatype = "int" THEN PyInt(0)
        ELSE IF use_datatype = "float" THEN PyFloat(0)
        ELSE PyStr(<<>>)

fill_value(attrs, val) == range_set(attrs, fill_value_attribute_name, val)
fill_value_get(attrs) == range_get(attrs, fill_value_attribute_name)
fill_value_create(attrs) == fill_value(attrs, range_type(attrs))

lower(attrs, val) == range_set(attrs, lower_attribute_name, val)
lower_get(attrs) == range_get(attrs, lower_attribute_name)
lower_create(attrs) == lower(attrs, range_type(attrs))

upper(attrs, val) == range_set(attrs, upper_attribute_name, val)
upper_get(attrs) == range_get(attrs, upper_attribute_name)
upper_create(attrs) == upper(attrs, range_type(attrs))

---------------------------------------------------------------------------
(* A FeatureInformation record on its own *)

\* values a caller hands to the datatype setter
DatatypeInputs ==
    {DtStr(H5T_CLASS_T[c]) : c \in DOMAIN H5T_CLASS_T}
    \cup {DtStr("H5T_FLOAT"), DtStr("H5T_NATIVE_DOUBLE"), DtInt(0), DtInt(1), DtInt(3), DtInt(11)}

\* values a caller hands to the range setters: 12000.0, 42, -1.5, "4.5"
RangeInputs == {PyFloat(120000), PyInt(42), PyFloat(0 - 15), PyStr(<<"4", ".", "5">>)}
BoundInputs == {PyFloat(120000), PyInt(42)}

InitRange ==
    /\ instance = [attrs |-> EmptyDict, groups |-> <<>>]
    /\ h5 = [attrs |-> EmptyDict, groups |-> <<>>]
    /\ dataset = EmptyDict
    /\ root = [featureCode |-> <<>>, containers |-> [f \in Features |-> <<>>]]
    /\ groupF = [f \in Features |-> EmptyDict]
    /\ featInfo = EmptyDict
    /\ ret = PyNone
    /\ rootAttrs = EmptyDict
    /\ dataFile = EmptyFile
    /\ metadataDefault = NoDefaults
    /\ last = Done("init", NoArg, EmptyDict, <<>>)

\* what a setter or a create of featInfo does to the state
Assigned(op, val, r) ==
    /\ featInfo' = r.attrs
    /\ ret' = PyNone
    /\ last' = Outcome(op, val, EmptyDict, <<>>, r.err)
    /\ UNCHANGED <<instanceVars, rootVars, s102Vars>>

\* what a typed accessor of featInfo does to the state
Returned(op, r) ==
    /\ ret' = r.val
    /\ last' = Outcome(op, PyNone, EmptyDict, <<>>, r.err)
    /\ UNCHANGED <<featInfo, instanceVars, rootVars, s102Vars>>

\* featInfo.datatype = val
DatatypeSet == \E val \in DatatypeInputs : Assigned("datatype", val, datatype(featInfo, val))

\* featInfo.datatype_create()
DatatypeCreate == Assigned("datatype_create", PyNone, datatype_create(featInfo))

\* featInfo.fill_value = val
FillValueSet == \E val \in RangeInputs : Assigned("fill_value", val, fill_value(featInfo, val))

\* featInfo.fill_value_create()
FillValueCreate == Assigned("fill_value_create", PyNone, fill_value_create(featInfo))

\* featInfo.fill_value
FillValueGet == Returned("fill_value_get", fill_value_get(featInfo))

\* featInfo.lower = val
LowerSet == \E val \in BoundInputs : Assigned("lower", val, lower(featInfo, val))

\* featInfo.lower_create()
LowerCreate == Assigned("lower_create", PyNone, lower_create(featInfo))

\* featInfo.lower
LowerGet == Returned("lower_get", lower_get(featInfo))

\* featInfo.upper = val
UpperSet == \E val \in BoundInputs : Assigned("upper", val, upper(featInfo, val))

\* featInfo.upper_create()
UpperCreate == Assigned("upper_create", PyNone, upper_create(featInfo))

\* featInfo.upper
UpperGet == Returned("upper_get", upper_get(featInfo))

NextRange ==
    \/ DatatypeSet
    \/ DatatypeCreate
    \/ FillValueSet
    \/ FillValueCreate
    \/ FillValueGet
    \/ LowerSet
    \/ LowerCreate
    \/ LowerGet
    \/ UpperSet
    \/ UpperCreate
    \/ UpperGet

SpecRange == InitRange /\ [][NextRange]_vars

---------------------------------------------------------------------------
(* Enumerations: VERTICAL_DATUM and S100Root.vertical_datum *)

\* a name of an Enum class body with the value it is given
EnumName(name, value) == [name |-> name, value |-> value]

\* class VERTICAL_DATUM(Enum), its names in the order of the class body
VERTICAL_DATUM ==
    <<
       EnumName("meanLowWaterSprings", 1),
       EnumName("MLWS", 1),
       EnumName("meanLowerLowWaterSprings", 2),
       EnumName("meanSeaLevel", 3),
       EnumName("MSL", 3),
       EnumName("lowestLowWater", 4),
       EnumName("meanLowWater", 5),
       EnumName("MLW", 5),
       EnumName("lowestLowWaterSprings", 6),
       EnumName("approximateMeanLowWaterSprings", 7),
       EnumName("indianSpringLowWater", 8),
       EnumName("lowWaterSprings", 9),
       EnumName("approximateLowestAstronomicalTide", 10),
       EnumName("nearlyLowestLowWater", 11),
       EnumName("meanLowerLowWater", 12),
       EnumName("MLLW", 12),
       EnumName("lowWater", 13),
       EnumName("LW", 13),
       EnumName("approximateMeanLowWater", 14),
       EnumName("approximateMeanLowerLowWater", 15),
       EnumName("meanHighWater", 16),
       EnumName("MHW", 16),
       EnumName("meanHighWaterSprings", 17),
       EnumName("MHWS", 17),
       EnumName("highWater", 18),
       EnumName("approximateMeanSeaLevel", 19),
       EnumName("highWaterSprings", 20),
       EnumName("meanHigherHighWater", 21),
       EnumName("MHHW", 21),
       EnumName("equinoctialSpringLowWater", 22),
       EnumName("lowestAstronomicalTide", 23),
       EnumName("LAT", 23),
       EnumName("localDatum", 24),
       EnumName("internationalGreatLakesDatum1985", 25),
       EnumName("meanWaterLevel", 26),
       EnumName("lowerLowWaterLargeTide", 27),
       EnumName("higherHighWaterLargeTide", 28),
       EnumName("nearlyHighestHighWater", 29),
       EnumName("highestAstronomicalTide", 30),
       EnumName("HAT", 30)
    >>

\* the member of Enum class enum_type that owns the value of name i: with several
\* names of one value, the first of the class body is the member and the
\* others are its aliases
enum_member(enum_type, i) ==
    enum_type[CHOOSE j \in 1..Len(enum_type) :
                  /\ enum_type[j].value = enum_type[i].value
                  /\ \A k \in 1..(j - 1) : enum_type[k].value # enum_type[i].value]

\* enum_type[name]
enum_by_name_alias(enum_type, name) ==
    IF \E i \in 1..Len(enum_type) : enum_type[i].name = name
    THEN [err |-> "none", member |-> enum_type[CHOOSE i \in 1..Len(enum_type) : enum_type[i].name = name]]
    ELSE [err |-> "KeyError", member |-> EnumName("", 0)]

enum_by_name(enum_type, name) ==
    IF \E i \in 1..Len(enum_type) : enum_type[i].name = name
    THEN [err |-> "none",
          member |-> enum_member(enum_type, CHOOSE i \in 1..Len(enum_type) : enum_type[i].name = name)]
    ELSE [err |-> "KeyError", member |-> EnumName("", 0)]

\* enum_type(value)
enum_by_value(enum_type, value) ==
    IF \E i \in 1..Len(enum_type) : enum_type[i].value = value
    THEN [err |-> "none",
          member |-> enum_member(enum_type, CHOOSE i \in 1..Len(enum_type) : enum_type[i].value = value)]
    ELSE [err |-> "ValueError", member |-> EnumName("", 0)]

\* a value handed to an enumeration setter: a str, an int or a member
EnumStr(name) == [t |-> "str", name |-> name, value |-> 0]
EnumInt(value) == [t |-> "int", name |-> "", value |-> value]
EnumMember(member) == [t |-> "enum", name |-> member.name, value |-> member.value]

\* S1xxAttributesBase.set_enum_attribute: a str is looked up by name, an int
\* by value, and the member is stored
set_enum_attribute(attrs, val, attribute_name, enum_type) ==
    LET found == CASE val.t = "str" -> enum_by_name(enum_type, val.name)
                   [] val.t = "int" -> enum_by_value(enum_type, val.value)
                   [] val.t = "enum" -> [err |-> "none", member |-> EnumName(val.name, val.value)]
    IN  IF found.err = "none"
        THEN [attrs |-> Put(attrs, attribute_name, found.member), err |-> "none"]
        ELSE [attrs |-> attrs, err |-> found.err]

vertical_datum_attribute_name == "verticalDatum"
vertical_datum_type == VERTICAL_DATUM

\* S100Root.vertical_datum setter
vertical_datum(attrs, val) == set_enum_attribute(attrs, val, vertical_datum_attribute_name, vertical_datum_type)

\* S100Root.vertical_datum
vertical_datum_get(attrs) ==
    IF Has(attrs, vertical_datum_attribute_name)
    THEN [err |-> "none", val |-> EnumMember(attrs[vertical_datum_attribute_name])]
    ELSE [err |-> "KeyError", val |-> EnumStr("")]

\* S100Root.vertical_datum_create
vertical_datum_create(attrs) ==
    vertical_datum(attrs, EnumMember(enum_by_name(vertical_datum_type, "MLLW").member))

\* values a caller hands to the vertical_datum setter: every name of the
\* class, a name in the wrong case, values inside and outside the class
VerticalDatumInputs ==
    {EnumStr(VERTICAL_DATUM[i].name) : i \in 1..Len(VERTICAL_DATUM)}
    \cup {EnumStr("mllw"), EnumInt(12), EnumInt(30), EnumInt(0), EnumInt(31)}

InitDatum ==
    /\ instance = [attrs |-> EmptyDict, groups |-> <<>>]
    /\ h5 = [attrs |-> EmptyDict, groups |-> <<>>]
    /\ dataset = EmptyDict
    /\ root = [featureCode |-> <<>>, containers |-> [f \in Features |-> <<>>]]
    /\ groupF = [f \in Features |-> EmptyDict]
    /\ featInfo = EmptyDict
    /\ ret = PyNone
    /\ rootAttrs = EmptyDict
    /\ dataFile = EmptyFile
    /\ metadataDefault = NoDefaults
    /\ last = Done("init", NoArg, EmptyDict, <<>>)

\* root.vertical_datum = val
VerticalDatumSet ==
    \E val \in VerticalDatumInputs :
        LET r == vertical_datum(rootAttrs, val)
        IN  /\ rootAttrs' = r.attrs
            /\ ret' = PyNone
            /\ last' = Outcome("vertical_datum", val, EmptyDict, <<>>, r.err)
            /\ UNCHANGED <<instanceVars, rootVars, featInfo, dataFile, metadataDefault>>

\* root.vertical_datum_create()
VerticalDatumCreate ==
    LET r == vertical_datum_create(rootAttrs)
    IN  /\ rootAttrs' = r.attrs
        /\ ret' = PyNone
        /\ last' = Outcome("vertical_datum_create", NoArg, EmptyDict, <<>>, r.err)
        /\ UNCHANGED <<instanceVars, rootVars, featInfo, dataFile, metadataDefault>>

\* root.vertical_datum
VerticalDatumGet ==
    LET r == vertical_datum_get(rootAttrs)
    IN  /\ ret' = r.val
        /\ last' = Outcome("vertical_datum_get", NoArg, EmptyDict, <<>>, r.err)
        /\ UNCHANGED <<instanceVars, rootVars, featInfo, rootAttrs, dataFile, metadataDefault>>

NextDatum ==
    \/ VerticalDatumSet
    \/ VerticalDatumCreate
    \/ VerticalDatumGet

SpecDatum == InitDatum /\ [][NextDatum]_vars

---------------------------------------------------------------------------
(* numpy arrays: a 2-D array is a sequence of rows, its numbers in tenths *)

shape(a) == <<Len(a), Len(a[1])>>

\* numpy.full(shp, value)
full(shp, value) == [i \in 1..shp[1] |-> [j \in 1..shp[2] |-> value]]

\* numpy.fliplr reverses axis 1, numpy.flipud reverses axis 0
fliplr(a) == [i \in 1..Len(a) |-> [j \in 1..Len(a[i]) |-> a[i][Len(a[i]) + 1 - j]]]
flipud(a) == [i \in 1..Len(a) |-> a[Len(a) + 1 - i]]

\* the float a number-valued Python value stands for, in tenths
number(val) == IF val.t = "int" THEN val.x * 10 ELSE val.x

\* numpy.nan, the float that equals no float, itself included
NaN == 0 - 999999999

\* cell == val and cell != val for a cell of a float array: None equals no cell
cell_eq(cell, val) == val.t # "none" /\ cell # NaN /\ number(val) # NaN /\ cell = number(val)
cell_ne(cell, val) == ~cell_eq(cell, val)

\* a[a != val], as the set of its numbers
not_equal(a, val) == {cell \in {a[i][j] : i \in 1..Len(a), j \in 1..Len(a[1])} : cell_ne(cell, val)}

\* .max() and .min(): a zero-size array has neither, and nan propagates
array_max(s) == IF s = {} THEN [err |-> "ValueError", x |-> 0]
                ELSE IF NaN \in s THEN [err |-> "none", x |-> NaN]
                ELSE [err |-> "none", x |-> CHOOSE m \in s : \A n \in s : n <= m]
array_min(s) == IF s = {} THEN [err |-> "ValueError", x |-> 0]
                ELSE IF NaN \in s THEN [err |-> "none", x |-> NaN]
                ELSE [err |-> "none", x |-> CHOOSE m \in s : \A n \in s : m <= n]

\* b = numpy.copy(a); b[b == val] = fill
replace_equal(a, val, fill) ==
    [i \in 1..Len(a) |-> [j \in 1..Len(a[i]) |-> IF cell_eq(a[i][j], val) THEN fill ELSE a[i][j]]]

---------------------------------------------------------------------------
(* The S-102 data file object (s102/utils.py) *)

\* del obj.<attribute>: the key is removed
Del(d, k) == [j \in DOMAIN d \ {k} |-> d[j]]

\* S1xxAttributesBase.initialize_properties: every field of defaults is given
\* its default; with overwrite false a field already set is left alone
initialize_properties(attrs, defaults, overwrite) ==
    [k \in DOMAIN attrs \cup DOMAIN defaults |->
        IF k \in DOMAIN defaults /\ (overwrite \/ k \notin DOMAIN attrs) THEN defaults[k] ELSE attrs[k]]

\* the fields S100Root's *_create methods fill, with the values they give
RootDefaults ==
    [k \in {"horizontalDatumReference", "horizontalDatumValue", "epoch", "geographicIdentifier",
            "metadata", "issueDate"} |->
        CASE k = "horizontalDatumValue" -> 0
          [] k = "issueDate" -> "1970-01-01"
          [] OTHER -> ""]

\* a feature-information row as the S-102 api fills it (utils.py, lines 61-67):
\* datatype H5T_NATIVE_FLOAT and, as the range setters store them under it,
\* fill_value 1000000.0, lower -12000 and upper 12000
FeatureInformationDefaults ==
    [k \in {"datatype", "fillValue", "lower", "upper", "unitOfMeasure", "closure"} |->
        CASE k = "datatype" -> "H5T_NATIVE_FLOAT"
          [] k = "fillValue" -> <<"1", "0", "0", "0", "0", "0", "0">>
          [] k = "lower" -> <<"-", "1", "2", "0", "0", "0">>
          [] k = "upper" -> <<"1", "2", "0", "0", "0">>
          [] k = "unitOfMeasure" -> "metres"
          [] k = "closure" -> "closedInterval"]

\* the fields of a bathymetry coverage instance that initialize_properties fills
InstanceDefaults ==
    [k \in {"westBoundLongitude", "eastBoundLongitude", "southBoundLatitude", "northBoundLatitude",
            "numGRP", "startSequence", "numPointsLongitudinal", "numPointsLatitudinal", "numPointsVertical",
            "gridOriginLongitude", "gridOriginLatitude", "gridOriginVertical",
            "gridSpacingLongitudinal", "gridSpacingLatitudinal", "gridSpacingVertical",
            "verticalExtent.minimumZ", "verticalExtent.maximumZ",
            "numberOfTimes", "timeRecordInterval", "dateTimeOfFirstRecord", "dateTimeOfLastRecord"} |->
        CASE k \in {"startSequence", "dateTimeOfFirstRecord", "dateTimeOfLastRecord"} -> ""
          [] OTHER -> 0]

\* append_new_item() followed by initialize_properties and the code and name
new_row(code, name) ==
    [k \in DOMAIN FeatureInformationDefaults \cup {"code", "name"} |->
        CASE k = "code" -> code [] k = "name" -> name [] OTHER -> FeatureInformationDefaults[k]]

tracking_row(code, name, with_unit) ==
    LET row == new_row(code, name)
    IN  IF with_unit THEN [row EXCEPT !["unitOfMeasure"] = "N/A"] ELSE row

\* list.append_new_item(): the new item is the last of the list
append_new_item(list, item) == Append(list, item)

\* list[i], i counted from 0: <<item>>, or the IndexError of a missing index
getitem(list, i) ==
    IF i < Len(list) THEN [err |-> "none", item |-> <<list[i + 1]>>]
    ELSE [err |-> "IndexError", item |-> <<>>]

\* lines 56-72 with the uncertainty row made first
bathymetry_rows_swapped(rows) ==
    append_new_item(append_new_item(rows, new_row("uncertainty", "uncertainty")), new_row("depth", "depth"))

\* lines 56-72: the depth row, then the uncertainty row
bathymetry_rows(rows) ==
    append_new_item(append_new_item(rows, new_row("depth", "depth")), new_row("uncertainty", "uncertainty"))

\* lines 75-104: the five rows of the tracking list
tracking_rows(tracking) ==
    append_new_item(
        append_new_item(
            append_new_item(
                append_new_item(
                    append_new_item(tracking, tracking_row("X", "X", TRUE)),
                    tracking_row("Y", "Y", TRUE)),
                tracking_row("originalValue", "Original Value", FALSE)),
            tracking_row("trackCode", "Track Code", TRUE)),
        tracking_row("listSeries", "List Series", TRUE))

\* data_file.create_empty_metadata(): the root is filled with its defaults,
\* whatever it held
create_empty_metadata(st) == [st EXCEPT !.root = initialize_properties(st.root, RootDefaults, TRUE)]

\* create_s102(output_file, overwrite)
create_s102(st, overwrite) ==
    LET emptied == create_empty_metadata(st)
        file == emptied.file
        container == [k \in (DOMAIN file.container \cup
                             {"axisNames", "sequencingRule.scanDirection", "commonPointRule",
                              "interpolationType", "numInstances", "sequencingRule.type"}) \ {"timeUncertainty"} |->
                         CASE k = "axisNames" -> <<"Longitude", "Latitude">>
                           [] k = "sequencingRule.scanDirection" -> "Longitude, Latitude"
                           [] k = "commonPointRule" -> 1
                           [] k = "interpolationType" -> 1
                           [] k = "numInstances" -> 1
                           [] k = "sequencingRule.type" -> 1
                           [] OTHER -> file.container[k]]
    IN  [emptied EXCEPT
            !.file.rows = bathymetry_rows(@),
            !.file.tracking = tracking_rows(@),
            !.file.container = container]

\* an item is appended whatever the list holds
always_new(list, new_item) == append_new_item(list, new_item)

\* obj.<list>[0], appended first when the list is empty (IndexError)
first_or_new(list, new_item) ==
    IF getitem(list, 0).err = "IndexError" THEN append_new_item(list, new_item) ELSE list

\* the attributes del removes from the coverage instance before the shape
\* check, and after it
DeletedEarly ==
    {"gridSpacingVertical", "gridOriginVertical", "numberOfTimes", "timeRecordInterval",
     "dateTimeOfLastRecord", "dateTimeOfFirstRecord"}
DeletedLate == {"numPointsVertical", "verticalExtent.maximumZ", "verticalExtent.minimumZ"}

\* the keys are kept and hold None
DelAll_null(d, keys) == [j \in DOMAIN d |-> IF j \in keys THEN None ELSE d[j]]
\* del obj.<attribute> for each attribute of keys: the keys are removed
DelAll(d, keys) == [j \in DOMAIN d \ keys |-> d[j]]

\* from_arrays, lines 153-172: the file is (re)initialised and the first
\* coverage instance and its first data group are found or made
arrays_prepare(st, overwrite) ==
    LET created == create_s102(st, TRUE)
        coverages == first_or_new(created.file.coverages, [attrs |-> EmptyDict, groups |-> <<>>])
        bathy_01 == coverages[1]
        attrs == Put(DelAll(initialize_properties(bathy_01.attrs, InstanceDefaults, overwrite), DeletedEarly),
                     "numGRP", 1)
        groups == first_or_new(bathy_01.groups, [attrs |-> EmptyDict, values |-> <<>>])
    IN  [created EXCEPT !.file.coverages = [coverages EXCEPT ![1] = [attrs |-> attrs, groups |-> groups]]]

\* lines 176-178 alone: the uncertainty grid that is used, its shape unchecked
arrays_check_unchecked(depth_grid, uncert_grid, nodata_value) ==
    IF uncert_grid = None
    THEN IF nodata_value.t = "none"
         THEN [err |-> "TypeError", uncert_grid |-> None]
         ELSE [err |-> "none", uncert_grid |-> full(shape(depth_grid), number(nodata_value))]
    ELSE [err |-> "none", uncert_grid |-> uncert_grid]

\* lines 176-180: the uncertainty grid that is used, or the error raised
arrays_check(depth_grid, uncert_grid, nodata_value) ==
    IF uncert_grid = None
    THEN IF nodata_value.t = "none"
         THEN [err |-> "TypeError", uncert_grid |-> None]
         ELSE [err |-> "none", uncert_grid |-> full(shape(depth_grid), number(nodata_value))]
    ELSE IF shape(depth_grid) # shape(uncert_grid)
         THEN [err |-> "S102Exception", uncert_grid |-> uncert_grid]
         ELSE [err |-> "none", uncert_grid |-> uncert_grid]

\* lines 182-208: the descriptive attributes of the instance and of the group
arrays_describe(st, depth_grid, uncert_grid, nodata_value, overwrite) ==
    LET nx == shape(depth_grid)[1]
        ny == shape(depth_grid)[2]
        bathy_01 == st.file.coverages[1]
        attrs == DelAll([k \in DOMAIN bathy_01.attrs \cup {"numPointsLatitudinal", "numPointsLongitudinal", "startSequence"} |->
                            CASE k = "numPointsLatitudinal" -> ny
                              [] k = "numPointsLongitudinal" -> nx
                              [] k = "startSequence" -> "0,0"
                              [] OTHER -> bathy_01.attrs[k]], DeletedLate)
        group == bathy_01.groups[1]
        extent == Put(group.attrs, "extent", [low |-> <<0, 0>>, high |-> <<nx, ny>>])
        depth_max == array_max(not_equal(depth_grid, nodata_value))
        depth_min == array_min(not_equal(depth_grid, nodata_value))
        depths == Put(Put(extent, "maximumDepth", depth_max.x), "minimumDepth", depth_min.x)
        uncertainty_max == array_max(not_equal(uncert_grid, nodata_value))
        uncertainty_min == array_min(not_equal(uncert_grid, nodata_value))
        uncertainties == Put(Put(depths, "minimumUncertainty", uncertainty_min.x), "maximumUncertainty", uncertainty_max.x)
        described == Put(Put(uncertainties, "dimension", 2), "origin", [dimension |-> 2, coordinate |-> <<>>])
        with(group_attrs, err) ==
            [st EXCEPT !.file.coverages[1] = [attrs |-> attrs, groups |-> [bathy_01.groups EXCEPT ![1].attrs = group_attrs]],
                       !.err = err]
    IN  IF depth_max.err # "none" THEN with(extent, depth_max.err)
        ELSE IF uncertainty_max.err # "none" THEN with(depths, uncertainty_max.err)
        ELSE with(described, "none")

\* lines 220-224: the caller's nodata marker gives way to the declared fill
\* values, unless it is the fill value of the first row
substitute_fill(depth_grid, uncert_grid, nodata_value, rows) ==
    LET depth_fill == fill_value_get(rows[1]).val
        uncert_fill == fill_value_get(rows[2]).val
    IN  IF cell_ne(number(depth_fill), nodata_value)
        THEN [depth |-> replace_equal(depth_grid, nodata_value, number(depth_fill)),
              uncertainty |-> replace_equal(uncert_grid, nodata_value, number(uncert_fill))]
        ELSE [depth |-> depth_grid, uncertainty |-> uncert_grid]

\* lines 210-227: the values object is made, the grids are mirrored, filled
\* and assigned
arrays_store(st, depth_grid, uncert_grid, nodata_value, flip_x, flip_y) ==
    LET depth_x == IF flip_x THEN fliplr(depth_grid) ELSE depth_grid
        uncert_x == IF flip_x THEN fliplr(uncert_grid) ELSE uncert_grid
        depth_y == IF flip_y THEN flipud(depth_x) ELSE depth_x
        uncert_y == IF flip_y THEN flipud(uncert_x) ELSE uncert_x
        grid == substitute_fill(depth_y, uncert_y, nodata_value, st.file.rows)
    IN  [st EXCEPT !.file.coverages[1].groups[1].values = <<grid>>]

\* from_arrays(depth_grid, uncert_grid, output_file, nodata_value, flip_x,
\* flip_y, overwrite); st holds the data file, its root and the error raised
from_arrays(st, depth_grid, uncert_grid, nodata_value, flip_x, flip_y, overwrite) ==
    LET prepared == arrays_prepare(st, overwrite)
        checked == arrays_check(depth_grid, uncert_grid, nodata_value)
        described == arrays_describe(prepared, depth_grid, checked.uncert_grid, nodata_value, overwrite)
    IN  IF checked.err # "none" THEN [prepared EXCEPT !.err = checked.err]
        ELSE IF described.err # "none" THEN described
        ELSE arrays_store(described, depth_grid, checked.uncert_grid, nodata_value, flip_x, flip_y)

---------------------------------------------------------------------------
(* Ingestion of arrays into a data file *)

MaxRows == 4    \* rows of the bathymetry feature-information list

NoData == 0 - 99990     \* -9999.0, a caller's nodata marker
Fill == 10000000        \* 1000000.0, the fill value the S-102 api declares

\* depth and uncertainty grids a caller hands over, and nodata markers
DepthInputs == { <<<<10, NoData>>, <<Fill, 20>>>>, <<<<NaN, 30>>>> }
UncertInputs == { None, <<<<1, NoData>>, <<2, Fill>>>>, <<<<3, 4>>>> }
NodataInputs == { PyNone, PyFloat(NoData), PyFloat(Fill), PyFloat(NaN) }

\* the rows a caller declares a fill value on (depth, uncertainty), and the
\* fill value declared
RowInputs == {1, 2}
FillInputs == { PyFloat(0) }

InitArrays ==
    /\ instance = [attrs |-> EmptyDict, groups |-> <<>>]
    /\ h5 = [attrs |-> EmptyDict, groups |-> <<>>]
    /\ dataset = EmptyDict
    /\ root = [featureCode |-> <<>>, containers |-> [f \in Features |-> <<>>]]
    /\ groupF = [f \in Features |-> EmptyDict]
    /\ featInfo = EmptyDict
    /\ ret = PyNone
    /\ rootAttrs = EmptyDict
    /\ dataFile = EmptyFile
    /\ metadataDefault = NoDefaults
    /\ last = Done("init", NoArg, EmptyDict, <<>>)

\* the data file with its root, as the functions of utils.py see it
Opened == [file |-> dataFile, root |-> rootAttrs, err |-> "none"]

\* what a function of utils.py leaves behind
Ingested(op, arg, r) ==
    /\ dataFile' = r.file
    /\ rootAttrs' = r.root
    /\ last' = Outcome(op, arg, [file |-> dataFile, root |-> rootAttrs], <<>>, r.err)
    /\ UNCHANGED <<instanceVars, rootVars, rangeVars, metadataDefault>>

\* create_s102(data_file, overwrite)
CreateS102 ==
    \E overwrite \in BOOLEAN :
        /\ Len(dataFile.rows) + 2 <= MaxRows
        /\ Ingested("create_s102", [overwrite |-> overwrite], create_s102(Opened, overwrite))

\* from_arrays(depth_grid, uncert_grid, data_file, nodata_value, flip_x, flip_y, overwrite)
FromArrays ==
    \E depth_grid \in DepthInputs, uncert_grid \in UncertInputs, nodata_value \in NodataInputs,
       flip_x \in BOOLEAN, flip_y \in BOOLEAN, overwrite \in BOOLEAN :
        /\ Len(dataFile.rows) + 2 <= MaxRows
        /\ Ingested("from_arrays",
                    [depth_grid |-> depth_grid, uncert_grid |-> uncert_grid, nodata_value |-> nodata_value,
                     flip_x |-> flip_x, flip_y |-> flip_y, overwrite |-> overwrite],
                    from_arrays(Opened, depth_grid, uncert_grid, nodata_value, flip_x, flip_y, overwrite))

\* data_file.root.feature_information.bathymetry_coverage_dataset[i].fill_value = val
RowFillValueSet ==
    \E i \in RowInputs, val \in FillInputs :
        /\ i <= Len(dataFile.rows)
        /\ dataFile' = [dataFile EXCEPT !.rows[i] = fill_value(@, val).attrs]
        /\ last' = Done("row_fill_value", val, EmptyDict, <<>>)
        /\ UNCHANGED <<instanceVars, rootVars, rangeVars, rootAttrs, metadataDefault>>

\* data_file.root.geographic_identifier = val
GeographicIdentifierSet ==
    /\ rootAttrs' = Put(rootAttrs, "geographicIdentifier", "Long Beach, CA, USA")
    /\ last' = Done("geographic_identifier", NoArg, EmptyDict, <<>>)
    /\ UNCHANGED <<instanceVars, rootVars, rangeVars, dataFile, metadataDefault>>

\* data_file.root.bathymetry_coverage.bathymetry_coverage[0].west_bound_longitude = 10.0
WestBoundLongitudeSet ==
    /\ Len(dataFile.coverages) >= 1
    /\ dataFile' = [dataFile EXCEPT !.coverages[1].attrs = Put(@, "westBoundLongitude", 100)]
    /\ last' = Done("west_bound_longitude", NoArg, EmptyDict, <<>>)
    /\ UNCHANGED <<instanceVars, rootVars, rangeVars, rootAttrs, metadataDefault>>

NextArrays ==
    \/ CreateS102
    \/ FromArrays
    \/ RowFillValueSet
    \/ GeographicIdentifierSet
    \/ WestBoundLongitudeSet

SpecArrays == InitArrays /\ [][NextArrays]_vars

---------------------------------------------------------------------------
(* from_arrays_with_metadata (s102/utils.py) *)

\* metadata.get(k, default)
get(d, k, default) == IF Has(d, k) THEN d[k] ELSE default

abs(x) == IF x < 0 THEN 0 - x ELSE x
min(a, b) == IF a <= b THEN a ELSE b
max(a, b) == IF a >= b THEN a ELSE b

\* numpy.arange(start, stop) as a list, and x in list
arange(start, stop) == [i \in 1..(stop - start) |-> start + i - 1]
in_list(x, list) == \E i \in 1..Len(list) : list[i] = x

\* get_valid_epsg()
get_valid_epsg == <<4326, 5041, 5042>> \o arange(32601, 32660 + 1) \o arange(32701, 32760 + 1)

\* no grid is mirrored
flip_never(res) == [flip_x |-> FALSE, flip_y |-> FALSE]
\* lines 270-272: a grid is mirrored along an axis whose resolution is negative
flip_from_res(res) == [flip_x |-> res[1] < 0, flip_y |-> res[2] < 0]

\* lines 274-284, with the far corner a whole cell further than the last node
bounding_box_cells(shp, origin, res) ==
    LET opposite_corner_x == origin[1] + res[1] * shp[1]
        opposite_corner_y == origin[2] + res[2] * shp[2]
    IN  [minx |-> min(origin[1], opposite_corner_x), maxx |-> max(origin[1], opposite_corner_x),
         miny |-> min(origin[2], opposite_corner_y), maxy |-> max(origin[2], opposite_corner_y)]

\* lines 274-284: the far corner is res * (n - 1) away from the origin
bounding_box(shp, origin, res) ==
    LET nx == shp[1]
        ny == shp[2]
        corner_x == origin[1]
        corner_y == origin[2]
        opposite_corner_x == corner_x + res[1] * (nx - 1)
        opposite_corner_y == corner_y + res[2] * (ny - 1)
    IN  [minx |-> min(corner_x, opposite_corner_x), maxx |-> max(corner_x, opposite_corner_x),
         miny |-> min(corner_y, opposite_corner_y), maxy |-> max(corner_y, opposite_corner_y)]

\* srs.ImportFromEPSG(code); srs.IsProjected(): the UTM zones and the two
\* polar stereographic systems are projected
IsProjected(code) == code \in {5041, 5042} \cup 32601..32660 \cup 32701..32760

\* PutAll(d, e): d with every key of e set as in e
PutAll(d, e) == [k \in DOMAIN d \cup DOMAIN e |-> IF k \in DOMAIN e THEN e[k] ELSE d[k]]

\* lines 293-309: the bounds and the grid geometry
metadata_bounds(st, box, res) ==
    LET bounds == [k \in {"eastBoundLongitude", "westBoundLongitude", "southBoundLatitude", "northBoundLatitude"} |->
                      CASE k = "eastBoundLongitude" -> box.maxx
                        [] k = "westBoundLongitude" -> box.minx
                        [] k = "southBoundLatitude" -> box.miny
                        [] k = "northBoundLatitude" -> box.maxy]
        geometry == [k \in {"gridOriginLongitude", "gridOriginLatitude",
                            "gridSpacingLongitudinal", "gridSpacingLatitudinal"} |->
                      CASE k = "gridOriginLongitude" -> box.minx
                        [] k = "gridOriginLatitude" -> box.miny
                        [] k = "gridSpacingLongitudinal" -> abs(res[1])
                        [] k = "gridSpacingLatitudinal" -> abs(res[2])]
    IN  [st EXCEPT !.root = PutAll(@, bounds),
                   !.file.coverages[1].attrs = PutAll(PutAll(@, bounds), geometry),
                   !.file.coverages[1].groups[1].attrs["origin"].coordinate = <<box.minx, box.miny>>]

\* lines 313-314
metadata_datum_reference(st, metadata, overwrite) ==
    IF Has(metadata, "horizontalDatumReference") \/ overwrite
    THEN [st EXCEPT !.root = Put(@, "horizontalDatumReference", get(metadata, "horizontalDatumReference", "EPSG"))]
    ELSE st

\* lines 315-320, every code accepted
metadata_datum_value_unchecked(st, metadata, overwrite) ==
    IF Has(metadata, "horizontalDatumValue") \/ overwrite
    THEN LET source_epsg == py_int(get(metadata, "horizontalDatumValue", PyInt(0)))
         IN  IF source_epsg.err # "none" THEN [st EXCEPT !.err = source_epsg.err]
             ELSE [st EXCEPT !.root = Put(@, "horizontalDatumValue", source_epsg.x)]
    ELSE st

\* lines 315-320, entered only for a code that was supplied
metadata_datum_value_supplied(st, metadata, overwrite) ==
    IF Has(metadata, "horizontalDatumValue")
    THEN LET source_epsg == py_int(get(metadata, "horizontalDatumValue", PyInt(0)))
         IN  IF source_epsg.err # "none" THEN [st EXCEPT !.err = source_epsg.err]
             ELSE IF in_list(source_epsg.x, get_valid_epsg)
             THEN [st EXCEPT !.root = Put(@, "horizontalDatumValue", source_epsg.x)]
             ELSE [st EXCEPT !.err = "ValueError"]
    ELSE st

\* lines 315-320
metadata_datum_value(st, metadata, overwrite) ==
    IF Has(metadata, "horizontalDatumValue") \/ overwrite
    THEN LET source_epsg == py_int(get(metadata, "horizontalDatumValue", PyInt(0)))
         IN  IF source_epsg.err # "none" THEN [st EXCEPT !.err = source_epsg.err]
             ELSE IF in_list(source_epsg.x, get_valid_epsg)
             THEN [st EXCEPT !.root = Put(@, "horizontalDatumValue", source_epsg.x)]
             ELSE [st EXCEPT !.err = "ValueError"]
    ELSE st

\* lines 321-329
metadata_axes(st) ==
    LET axes == IF IsProjected(st.root["horizontalDatumValue"])
                THEN <<"Easting", "Northing">> ELSE <<"Longitude", "Latitude">>
    IN  [st EXCEPT !.file.coverages[1].groups[1].attrs = Put(@, "axisNames", axes),
                   !.file.container = Put(Put(@, "axisNames", axes),
                                          "sequencingRule.scanDirection",
                                          IF IsProjected(st.root["horizontalDatumValue"])
                                          THEN "Easting, Northing" ELSE "Longitude, Latitude")]

\* lines 331-338: a root field is set from its metadata key, or emptied
metadata_field(st, metadata, overwrite, key, name) ==
    IF Has(metadata, key) \/ overwrite
    THEN [st EXCEPT !.root = Put(@, name, get(metadata, key, ""))]
    ELSE st

metadata_fields(st, metadata, overwrite) ==
    metadata_field(
        metadata_field(
            metadata_field(
                metadata_field(st, metadata, overwrite, "epoch", "epoch"),
                metadata, overwrite, "geographicIdentifier", "geographicIdentifier"),
            metadata, overwrite, "issueDate", "issueDate"),
        metadata, overwrite, "metadataFile", "metadata")

\* data_file.write() alone
write_unflushed(st) == [st EXCEPT !.file.io = @ \o <<"write">>]
\* lines 340-341: data_file.write(); data_file.flush()
write_flush(st) == [st EXCEPT !.file.io = @ \o <<"write", "flush">>]

\* from_arrays_with_metadata(depth_grid, uncert_grid, metadata, output_file,
\* nodata_value, overwrite)
from_arrays_with_metadata(st, depth_grid, uncert_grid, metadata, nodata_value, overwrite) ==
    IF ~Has(metadata, "res") \/ ~Has(metadata, "origin") THEN [st EXCEPT !.err = "KeyError"]
    ELSE
    LET res == metadata["res"]
        flip == flip_from_res(res)
        box == bounding_box(shape(depth_grid), metadata["origin"], res)
        ingested == from_arrays(st, depth_grid, uncert_grid, nodata_value, flip.flip_x, flip.flip_y, overwrite)
        bounded == metadata_bounds(ingested, box, res)
        referenced == metadata_datum_reference(bounded, metadata, overwrite)
        validated == metadata_datum_value(referenced, metadata, overwrite)
    IN  IF ingested.err # "none" THEN ingested
        ELSE IF validated.err # "none" THEN validated
        ELSE write_flush(metadata_fields(metadata_axes(validated), metadata, overwrite))

---------------------------------------------------------------------------
(* Ingestion of arrays with their metadata *)

\* origins and resolutions of a grid, in tenths
OriginInputs == { <<100, 200>> }
ResInputs == { <<5, 0 - 5>>, <<0 - 5, 5>>, <<0, 0>>, <<10, 10>> }

\* horizontal datum codes a caller supplies
DatumInputs == { PyInt(32601), PyInt(4326), PyInt(9999) }

\* an optional value: <<>> when the key is left out
Optional(S) == {<<>>} \cup {<<x>> : x \in S}
PutOptional(d, k, opt) == IF Len(opt) = 0 THEN d ELSE Put(d, k, opt[1])

MetadataInputs ==
    { PutOptional(PutOptional(Put(Put(EmptyDict, "origin", origin), "res", res),
                              "horizontalDatumValue", datum),
                  "geographicIdentifier", where) :
        origin \in OriginInputs, res \in ResInputs, datum \in Optional(DatumInputs),
        where \in Optional({"Long Beach, CA, USA"}) }

\* from_arrays_with_metadata(depth_grid, uncert_grid, metadata, data_file, nodata_value, overwrite)
FromArraysWithMetadata ==
    \E depth_grid \in DepthInputs, uncert_grid \in UncertInputs \ {None}, metadata \in MetadataInputs,
       overwrite \in BOOLEAN :
        /\ Len(dataFile.rows) + 2 <= MaxRows
        /\ Ingested("from_arrays_with_metadata",
                    [depth_grid |-> depth_grid, uncert_grid |-> uncert_grid, metadata |-> metadata,
                     nodata_value |-> PyFloat(NoData), overwrite |-> overwrite],
                    from_arrays_with_metadata(Opened, depth_grid, uncert_grid, metadata, PyFloat(NoData), overwrite))

NextMeta ==
    \/ FromArraysWithMetadata

SpecMeta == InitArrays /\ [][NextMeta]_vars

---------------------------------------------------------------------------
(* from_gdal and from_bag (s102/utils.py) *)

\* x / 2 for a number of tenths that is even
half(x) == x \div 2

\* lines 375-378: the datum of the raster, when either datum key is missing
gdal_datum(raster, metadata) ==
    IF ~Has(metadata, "horizontalDatumReference") \/ ~Has(metadata, "horizontalDatumValue")
    THEN LET epsg == py_int(raster.epsg)
             referenced == Put(metadata, "horizontalDatumReference", "EPSG")
         IN  IF epsg.err # "none" THEN [err |-> epsg.err, metadata |-> referenced]
             ELSE [err |-> "none", metadata |-> Put(referenced, "horizontalDatumValue", PyInt(epsg.x))]
    ELSE [err |-> "none", metadata |-> metadata]

\* lines 392-396: the node of the upper left pixel and the pixel size, for the
\* keys that are missing
gdal_geometry(raster, metadata) ==
    LET gt == raster.geotransform
        placed == IF ~Has(metadata, "origin")
                  THEN Put(metadata, "origin", <<gt.ulx + half(gt.dxx), gt.uly + half(gt.dyy)>>)
                  ELSE metadata
    IN  IF ~Has(placed, "res") THEN Put(placed, "res", <<gt.dxx, gt.dyy>>) ELSE placed

\* what from_gdal leaves: the file, the error raised and the dict it worked on
gdal_result(r, metadata) == [file |-> r.file, root |-> r.root, err |-> r.err, metadata |-> metadata]
gdal_failed(st, err, metadata) == [file |-> st.file, root |-> st.root, err |-> err, metadata |-> metadata]

\* lines 397-398: the bands are ingested with the metadata completed
gdal_ingest(st, raster, described) ==
    gdal_result(from_arrays_with_metadata(st, raster.depth, raster.uncertainty, described, raster.nodata, TRUE),
                described)

\* lines 380-398: a rotated raster is refused
gdal_north_up(st, raster, dated) ==
    IF dated.err # "none" THEN gdal_failed(st, dated.err, dated.metadata)
    ELSE IF raster.geotransform.dxy # 0 \/ raster.geotransform.dyx # 0
    THEN gdal_failed(st, "S102Exception", dated.metadata)
    ELSE gdal_ingest(st, raster, gdal_geometry(raster, dated.metadata))

\* from_gdal(input_raster, output_file, metadata): metadata is the dict the
\* function works on, which it changes in place and which the result carries
from_gdal(st, raster, metadata) == gdal_north_up(st, raster, gdal_datum(raster, metadata))

\* from_bag(bagfile, output_file, metadata): the date stamp of the BAG's xml
\* becomes the issueDate when the key is missing
from_bag(st, bag, metadata) ==
    LET dated == IF ~Has(metadata, "issueDate") /\ Len(bag.dateStamp) > 0
                 THEN Put(metadata, "issueDate", bag.dateStamp[1])
                 ELSE metadata
    IN  from_gdal(st, bag.raster, dated)

---------------------------------------------------------------------------
(* Ingestion of rasters *)

\* a raster as GDAL opens it: the EPSG code of its projection, the nodata
\* value of band 1, bands 1 and 2 and the geotransform, in tenths
Raster(epsg, depth, uncertainty, ulx, dxx, dxy, uly, dyy) ==
    [epsg |-> PyStr(epsg), nodata |-> PyFloat(NoData), depth |-> depth, uncertainty |-> uncertainty,
     geotransform |-> [ulx |-> ulx, dxx |-> dxx, dxy |-> dxy, uly |-> uly, dyx |-> 0, dyy |-> dyy]]

RasterInputs ==
    { Raster(<<"3", "2", "6", "0", "1">>, <<<<10, NoData>>, <<Fill, 20>>>>, <<<<1, NoData>>, <<2, Fill>>>>,
             5000000, 10, 0, 40000000, 0 - 10),
      Raster(<<"4", "3", "2", "6">>, <<<<NaN, 30>>>>, <<<<3, 4>>>>, 0 - 1200, 20, 0, 300, 20),
      Raster(<<"4", "3", "2", "6">>, <<<<NaN, 30>>>>, <<<<3, 4>>>>, 0 - 1200, 20, 2, 300, 20) }

\* a BAG: its raster and the date stamp found in its xml metadata, if any
BagInputs == { [raster |-> raster, dateStamp |-> dateStamp] :
                  raster \in RasterInputs, dateStamp \in Optional({"2019-07-04"}) }

\* the metadata a caller hands to from_gdal
GdalMetadataInputs ==
    { Put(EmptyDict, "horizontalDatumValue", PyInt(32602)),
      Put(Put(EmptyDict, "horizontalDatumReference", "EPSG"), "horizontalDatumValue", PyInt(32602)),
      Put(Put(EmptyDict, "origin", <<100, 200>>), "res", <<5, 5>>),
      Put(EmptyDict, "geographicIdentifier", "Long Beach, CA, USA") }

\* the metadata a caller hands to from_bag
BagMetadataInputs == { Put(EmptyDict, "issueDate", "2020-01-31") }

\* what from_gdal or from_bag leaves behind: supplied is <<>> when the call
\* is made without metadata and the function's default dict is worked on
IngestedRaster(op, input, supplied, r) ==
    /\ dataFile' = r.file
    /\ rootAttrs' = r.root
    /\ metadataDefault' = IF Len(supplied) = 0 THEN [metadataDefault EXCEPT ![op] = r.metadata]
                          ELSE metadataDefault
    /\ last' = Outcome(op, [input |-> input, metadata |-> supplied],
                       [file |-> dataFile, root |-> rootAttrs], r.metadata, r.err)
    /\ UNCHANGED <<instanceVars, rootVars, rangeVars>>

\* the dict a call works on
Worked(op, supplied) == IF Len(supplied) = 0 THEN metadataDefault[op] ELSE supplied[1]

\* from_gdal(input_raster, data_file) and from_gdal(input_raster, data_file, metadata)
FromGdal ==
    \E input_raster \in RasterInputs, supplied \in Optional(GdalMetadataInputs) :
        /\ Len(dataFile.rows) + 2 <= MaxRows
        /\ \E r \in {from_gdal(Opened, input_raster, Worked("from_gdal", supplied))} :
              IngestedRaster("from_gdal", input_raster, supplied, r)

\* from_bag(bagfile, data_file) and from_bag(bagfile, data_file, metadata)
FromBag ==
    \E bagfile \in BagInputs, supplied \in Optional(BagMetadataInputs) :
        /\ Len(dataFile.rows) + 2 <= MaxRows
        /\ \E r \in {from_bag(Opened, bagfile, Worked("from_bag", supplied))} :
              IngestedRaster("from_bag", bagfile, supplied, r)

NextGdal ==
    \/ FromGdal
    \/ FromBag

SpecGdal == InitArrays /\ [][NextGdal]_vars

---------------------------------------------------------------------------
(* Reading a chunking string back, for the properties below *)

DigitValue(c) ==
    CASE c = "0" -> 0 [] c = "1" -> 1 [] c = "2" -> 2 [] c = "3" -> 3 [] c = "4" -> 4
      [] c = "5" -> 5 [] c = "6" -> 6 [] c = "7" -> 7 [] c = "8" -> 8 [] c = "9" -> 9

IsDigit(c) == c \in {"0", "1", "2", "3", "4", "5", "6", "7", "8", "9"}

RECURSIVE ParseNat(_)
ParseNat(s) == IF Len(s) = 0 THEN 0
               ELSE ParseNat(SubSeq(s, 1, Len(s) - 1)) * 10 + DigitValue(s[Len(s)])

\* s.split(",")
RECURSIVE Split(_)
Split(s) ==
    IF \E i \in 1..Len(s) : s[i] = ","
    THEN LET i == CHOOSE j \in 1..Len(s) : s[j] = "," /\ \A m \in 1..(j - 1) : s[m] # ","
         IN  <<SubSeq(s, 1, i - 1)>> \o Split(SubSeq(s, i + 1, Len(s)))
    ELSE <<s>>

\* a decimal numeral of a positive integer
IsPositiveNumeral(f) ==
    /\ Len(f) > 0
    /\ \A i \in 1..Len(f) : IsDigit(f[i])
    /\ f[1] # "0"

\* a comma-separated list of positive integers, nothing else
IsChunkString(s) == \A i \in 1..Len(Split(s)) : IsPositiveNumeral(Split(s)[i])

\* the integers of a chunk string
ChunkList(s) == [i \in 1..Len(Split(s)) |-> ParseNat(Split(s)[i])]

\* s is exactly the comma-joined form of the tuple of positive integers n
IsJoined(s, n) == IsChunkString(s) /\ ChunkList(s) = n

HasIC(attrs) == Has(attrs, instance_chunking_attribute_name)
IC(attrs) == attrs[instance_chunking_attribute_name]

\* the data groups of the instance whose HDF5 group holds a values dataset
GroupsWithValues == {k \in 1..Len(instance.groups) : values_chunks(h5, k) # None}
LastWithValues == CHOOSE k \in GroupsWithValues : \A j \in GroupsWithValues : j <= k

Count(io, ev) == Cardinality({i \in 1..Len(io) : io[i].ev = ev})
CountFor(io, ev, k) == Cardinality({i \in 1..Len(io) : io[i].ev = ev /\ io[i].k = k})

---------------------------------------------------------------------------
(* C1: after FeatureInstanceBase.write on an instance with a data group     *)
(* that holds a values dataset, instanceChunking is the comma-joined chunk  *)
(* geometry of such a group (the last one in iteration order), whatever     *)
(* instanceChunking held before the write.                                  *)
C1_WriteStoresChunking ==
    (last.op = "write" /\ GroupsWithValues # {}) =>
        /\ HasIC(instance.attrs)
        /\ IsJoined(IC(instance.attrs), h5.groups[LastWithValues])

\* a write that replaced a different value set before, with two groups of
\* different geometry
C1_Witness ==
    /\ last.op = "write"
    /\ Len(instance.groups) = 2
    /\ h5.groups = <<<<150, 200>>, <<10, 10>>>>
    /\ HasIC(last.before)
    /\ IC(last.before) = <<"5", "0">>
    /\ IC(instance.attrs) = <<"1", "0", ",", "1", "0">>

(* C3: when no data group of the instance holds a values dataset, the write *)
(* completes, leaves the instance's attributes (instanceChunking set or     *)
(* unset) as they were, and flushes the simple attributes once only.        *)
C3_NoValuesNoChange ==
    (last.op = "write" /\ GroupsWithValues = {}) =>
        /\ instance.attrs = last.before
        /\ Count(last.io, "attrs") = 1

\* a write of an instance with a data group but no values, instanceChunking set
C3_Witness ==
    /\ last.op = "write"
    /\ Len(instance.groups) >= 1
    /\ GroupsWithValues = {}
    /\ HasIC(instance.attrs)
    /\ IC(instance.attrs) = <<"5", "0">>

(* C4: when a chunk geometry is discovered, the write ends with one         *)
(* re-flush of the simple attributes, carrying the updated instanceChunking,*)
(* after the ordinary write; every data group and every values dataset is   *)
(* written once.                                                            *)
C4_ReflushAttributesOnly ==
    (last.op = "write" /\ GroupsWithValues # {}) =>
        /\ Count(last.io, "attrs") = 2
        /\ last.io[1] = AttrsEvent(last.before)
        /\ last.io[Len(last.io)] = AttrsEvent(instance.attrs)
        /\ HasIC(h5.attrs) /\ IC(h5.attrs) = IC(instance.attrs)
        /\ \A k \in 1..Len(instance.groups) :
              /\ CountFor(last.io, "group", k) = 1
              /\ CountFor(last.io, "dataset", k) <= 1

C4_Witness ==
    /\ last.op = "write"
    /\ Len(instance.groups) = 2
    /\ GroupsWithValues = {1, 2}
    /\ Len(last.io) = 6
    /\ ~HasIC(last.before)
    /\ HasIC(last.io[6].attrs)

(* C7: both setters store a string: a string is stored as given, an         *)
(* iterable of integers as its elements joined by "," and nothing else;     *)
(* setting the attribute to the value read back changes nothing.            *)
C7_SetterStoresString ==
    /\ last.op = "set" =>
          IF last.arg.t = "str" THEN IC(instance.attrs) = last.arg.s
          ELSE IsJoined(IC(instance.attrs), last.arg.n)
    /\ last.op = "dset" =>
          IF last.arg.t = "str" THEN dataset[chunking_attribute_name] = last.arg.s
          ELSE IsJoined(dataset[chunking_attribute_name], last.arg.n)
    /\ last.op = "readback" => instance.attrs = last.before
    /\ last.op = "dreadback" => dataset = last.before

C7_Witness ==
    /\ last.op = "set"
    /\ last.arg = TupleVal(<<150, 200>>)
    /\ IC(instance.attrs) = <<"1", "5", "0", ",", "2", "0", "0">>
    /\ Has(dataset, chunking_attribute_name)
    /\ dataset[chunking_attribute_name] = <<"5", "0">>

(* C8: whenever instanceChunking, or a feature-information chunking         *)
(* attribute, is set, it is a comma-separated list of positive integers,    *)
(* as many as the rank of the values dataset it belongs to.                 *)
C8_ChunkingWellFormed ==
    /\ HasIC(instance.attrs) =>
          /\ IsChunkString(IC(instance.attrs))
          /\ \A k \in GroupsWithValues : Len(ChunkList(IC(instance.attrs))) = Len(h5.groups[k])
    /\ Has(dataset, chunking_attribute_name) => IsChunkString(dataset[chunking_attribute_name])

---------------------------------------------------------------------------
(* Properties of S100Root.write *)

RootWritten == last.op = "rootwrite" /\ last.err = "none"

\* the feature containers named by Group_F's featureCode
ListedFeatures == {root.featureCode[j].name : j \in 1..Len(root.featureCode)} \cap Features

\* the instances of container f on which instanceChunking is set
WithChunking(f) ==
    IF f \in Features THEN {i \in 1..Len(root.containers[f]) : HasIC(root.containers[f][i].attrs)} ELSE {}
LastWithChunking(f) == CHOOSE i \in WithChunking(f) : \A j \in WithChunking(f) : j <= i

HasChunking(f) == Has(groupF[f], chunking_attribute_name)
Chunking(f) == groupF[f][chunking_attribute_name]

(* C2: after S100Root.write completes, every listed feature whose container *)
(* has an instance with instanceChunking set carries, as the chunking of its *)
(* feature-information entry, the instanceChunking string of such an         *)
(* instance.                                                                 *)
C2_RootCopiesChunking ==
    RootWritten =>
        \A f \in ListedFeatures :
            WithChunking(f) # {} =>
                /\ HasChunking(f)
                /\ \E i \in WithChunking(f) : Chunking(f) = IC(root.containers[f][i].attrs)

\* one instance whose values dataset was chunked (150, 200); the entry had
\* another value before
C2_Witness ==
    /\ RootWritten
    /\ root.featureCode[1] = Bytes("BathymetryCoverage")
    /\ Len(root.containers["BathymetryCoverage"]) = 1
    /\ root.containers["BathymetryCoverage"][1].groups = <<[values |-> <<150, 200>>]>>
    /\ IC(root.containers["BathymetryCoverage"][1].attrs) = <<"1", "5", "0", ",", "2", "0", "0">>
    /\ Chunking("BathymetryCoverage") = <<"1", "5", "0", ",", "2", "0", "0">>
    /\ last.io = <<RootEvent, FeatureInfoEvent(1, groupF["BathymetryCoverage"])>>

(* C5: the value copied is that of the last instance, in list order, that   *)
(* has instanceChunking set; instances without it are passed over.          *)
C5_LastInstanceWins ==
    RootWritten =>
        \A f \in ListedFeatures :
            WithChunking(f) # {} =>
                /\ HasChunking(f)
                /\ Chunking(f) = IC(root.containers[f][LastWithChunking(f)].attrs)

\* two instances of one container with different values
C5_Witness ==
    /\ RootWritten
    /\ "BathymetryCoverage" \in ListedFeatures
    /\ Len(root.containers["BathymetryCoverage"]) = 2
    /\ WithChunking("BathymetryCoverage") = {1, 2}
    /\ IC(root.containers["BathymetryCoverage"][1].attrs) = <<"1", "5", "0", ",", "2", "0", "0">>
    /\ IC(root.containers["BathymetryCoverage"][2].attrs) = <<"1", "0", ",", "1", "0">>
    /\ Chunking("BathymetryCoverage") = <<"1", "0", ",", "1", "0">>

CodeName(j) == root.featureCode[j].name

\* the feature codes, by index, that are keys of the root's mapping in
\* neither form
UnmappedCodes == {j \in 1..Len(root.featureCode) : CodeName(j) \notin RootProperties}
FirstUnmapped == CHOOSE j \in UnmappedCodes : \A k \in UnmappedCodes : j <= k

\* the feature-information entry of feature code j was re-flushed
Reflushed(j) == \E e \in 1..Len(last.io) : last.io[e].ev = "groupf" /\ last.io[e].k = j

\* every feature instance has been through its own write: one that holds a
\* values dataset carries the chunk geometry read back from it
InstancesWritten ==
    \A f \in Features : \A i \in 1..Len(root.containers[f]) :
        root.containers[f][i].groups # <<>> =>
            /\ HasIC(root.containers[f][i].attrs)
            /\ IC(root.containers[f][i].attrs) = <<"1", "5", "0", ",", "2", "0", "0">>

\* a failed S100Root.write failed after the ordinary write, and what it had
\* written by then stays: the instances, and the entries of the feature codes
\* that precede the failing one
LateAndKept ==
    (last.op = "rootwrite" /\ last.err # "none") =>
        /\ UnmappedCodes # {}
        /\ last.err \in {"KeyError", "AttributeError"}
        /\ last.io # <<>>
        /\ last.io[1] = RootEvent
        /\ InstancesWritten
        /\ \A j \in 1..(FirstUnmapped - 1) :
              WithChunking(CodeName(j)) # {} =>
                  /\ Reflushed(j)
                  /\ HasChunking(CodeName(j))
                  /\ Chunking(CodeName(j)) = IC(root.containers[CodeName(j)][LastWithChunking(CodeName(j))].attrs)
        /\ \A j \in FirstUnmapped..Len(root.featureCode) : ~Reflushed(j)

---------------------------------------------------------------------------
(* Properties of FeatureInformation's range attributes *)

RangeSetOps == {"fill_value", "lower", "upper"}
RangeGetOps == {"fill_value_get", "lower_get", "upper_get"}

\* the attribute a range operation is about
RangeAttribute(op) ==
    CASE op \in {"fill_value", "fill_value_get", "fill_value_create"} -> fill_value_attribute_name
      [] op \in {"lower", "lower_get", "lower_create"} -> lower_attribute_name
      [] op \in {"upper", "upper_get", "upper_create"} -> upper_attribute_name

IntegerNames ==
    {"H5T_INTEGER", "H5T_NATIVE_INT8", "H5T_NATIVE_UINT8", "H5T_NATIVE_INT16", "H5T_NATIVE_UINT16",
     "H5T_NATIVE_INT32", "H5T_NATIVE_UINT32", "H5T_NATIVE_INT64", "H5T_NATIVE_UINT64"}
FloatNames == {"H5T_NATIVE_FLOAT", "H5T_FLOAT"}

HasDatatype == Has(featInfo, datatype_attribute_name)
ClassifiedInt == HasDatatype /\ featInfo[datatype_attribute_name] \in IntegerNames
ClassifiedFloat == HasDatatype /\ featInfo[datatype_attribute_name] \in FloatNames

\* a string of one or more digits
IsNumeral(s) == Len(s) > 0 /\ \A i \in 1..Len(s) : IsDigit(s[i])

(* C9: under a float datatype, setting fill_value, lower or upper to a     *)
(* whole float stores its digits without ".0" and the typed accessor gives *)
(* the float back; under an integer datatype, setting an int stores its     *)
(* digits and the accessor gives the int back.                              *)
C9_RangeRoundTrip ==
    /\ (last.op \in RangeSetOps /\ last.err = "none") =>
          LET name == RangeAttribute(last.op)
              stored == featInfo[name]
              back == range_get(featInfo, name)
          IN  /\ (ClassifiedFloat /\ last.arg.t = "float" /\ last.arg.x >= 0 /\ last.arg.x % 10 = 0) =>
                    /\ IsNumeral(stored)
                    /\ ParseNat(stored) * 10 = last.arg.x
                    /\ back = [err |-> "none", val |-> PyFloat(last.arg.x)]
              /\ (ClassifiedInt /\ last.arg.t = "int" /\ last.arg.x >= 0) =>
                    /\ IsNumeral(stored)
                    /\ ParseNat(stored) = last.arg.x
                    /\ back = [err |-> "none", val |-> PyInt(last.arg.x)]
    /\ (last.op \in RangeGetOps /\ last.err = "none" /\ IsNumeral(featInfo[RangeAttribute(last.op)])) =>
          /\ ClassifiedFloat => ret = PyFloat(ParseNat(featInfo[RangeAttribute(last.op)]) * 10)
          /\ ClassifiedInt => ret = PyInt(ParseNat(featInfo[RangeAttribute(last.op)]))

\* fill_value = 12000.0 under H5T_NATIVE_FLOAT
C9_Witness ==
    /\ last.op = "fill_value"
    /\ last.err = "none"
    /\ last.arg = PyFloat(120000)
    /\ HasDatatype
    /\ featInfo[datatype_attribute_name] = "H5T_NATIVE_FLOAT"
    /\ featInfo[fill_value_attribute_name] = <<"1", "2", "0", "0", "0">>

\* the logical type the datatype attribute stands for
Classification ==
    IF ~HasDatatype THEN "str"
    ELSE IF ClassifiedInt THEN "int"
    ELSE IF ClassifiedFloat THEN "float"
    ELSE "str"

(* C10: the logical type of fill_value, lower and upper is determined by    *)
(* the datatype attribute alone: int for the integer names, float for       *)
(* H5T_NATIVE_FLOAT and H5T_FLOAT, str for any other string and when         *)
(* datatype is not set; the typed accessors and the *_type properties       *)
(* follow it.                                                                *)
C10_ClassificationTotal ==
    /\ _python_datatype(featInfo) = Classification
    /\ range_type(featInfo).t = Classification
    /\ (last.op \in RangeGetOps /\ last.err = "none") => ret.t = Classification

\* an integer name other than H5T_INTEGER, read through the typed accessor
C10_Witness ==
    /\ HasDatatype
    /\ featInfo[datatype_attribute_name] = "H5T_NATIVE_UINT64"
    /\ last.op = "fill_value_get"
    /\ last.err = "none"
    /\ ret = PyInt(42)

(* C28: in S100Root.write the chunking copied to a feature type comes only  *)
(* from the instances of that same type: a listed type none of whose         *)
(* instances holds instanceChunking keeps its feature-information entry as   *)
(* it was and is not re-flushed, whatever an earlier type held.              *)
C28_ChunkingPerFeatureType ==
    [][ last'.op = "rootwrite" =>
          \A j \in 1..Len(root.featureCode) :
              (CodeName(j) \in Features /\ WithChunking(CodeName(j))' = {}) =>
                  /\ groupF'[CodeName(j)] = groupF[CodeName(j)]
                  /\ ~Reflushed(j)'
      ]_vars

\* the first type has an instance with instanceChunking and is re-flushed;
\* the second has an instance without it and keeps the chunking it had
C28_Witness ==
    /\ RootWritten
    /\ root.featureCode = <<Bytes("BathymetryCoverage"), Bytes("TrackingListCoverage")>>
    /\ WithChunking("BathymetryCoverage") # {}
    /\ Len(root.containers["TrackingListCoverage"]) = 1
    /\ WithChunking("TrackingListCoverage") = {}
    /\ Reflushed(1)
    /\ ~Reflushed(2)
    /\ Chunking("BathymetryCoverage") = <<"1", "5", "0", ",", "2", "0", "0">>
    /\ HasChunking("TrackingListCoverage")
    /\ Chunking("TrackingListCoverage") = <<"5", "0">>

RangeNames == {fill_value_attribute_name, lower_attribute_name, upper_attribute_name}

\* the stored strings of the range attributes
StoredRange(attrs) == [k \in DOMAIN attrs \cap RangeNames |-> attrs[k]]

(* C27: setting datatype, or creating it, leaves the stored strings of       *)
(* fillValue, lower and upper as they are; a range setter stores the         *)
(* encoding of its value under the datatype in force when it is called and   *)
(* leaves the other attributes alone; a typed accessor decodes the stored    *)
(* string under the datatype in force when it is called.                     *)
C27_DatatypeKeepsStoredStrings ==
    [][ /\ last'.op \in {"datatype", "datatype_create"} => StoredRange(featInfo') = StoredRange(featInfo)
        /\ (last'.op \in RangeSetOps /\ last'.err = "none") =>
              /\ featInfo'[RangeAttribute(last'.op)] = _convert_to_string_based_on_datatype(featInfo, last'.arg).s
              /\ \A k \in DOMAIN featInfo \ {RangeAttribute(last'.op)} : featInfo'[k] = featInfo[k]
        /\ (last'.op \in RangeSetOps /\ last'.err # "none") => featInfo' = featInfo
        /\ (last'.op \in RangeGetOps /\ last'.err = "none") =>
              /\ featInfo' = featInfo
              /\ ret' = _convert_from_string_based_on_datatype(featInfo, featInfo[RangeAttribute(last'.op)]).val
      ]_vars

\* the string "4.5", stored as a fill value while the datatype stood for str,
\* is still stored after the datatype was set to an integer name, under which
\* the setter stores digits only
C27_Witness ==
    /\ last.op = "datatype"
    /\ last.err = "none"
    /\ featInfo[datatype_attribute_name] = "H5T_INTEGER"
    /\ Has(featInfo, fill_value_attribute_name)
    /\ featInfo[fill_value_attribute_name] = <<"4", ".", "5">>
    /\ Has(featInfo, upper_attribute_name)
    /\ fill_value_get(featInfo).err = "ValueError"

---------------------------------------------------------------------------
(* Properties of the enumerations *)

\* the aliases of VERTICAL_DATUM and the long form of each
VerticalDatumAliases ==
    { <<"MLWS", "meanLowWaterSprings", 1>>, <<"MSL", "meanSeaLevel", 3>>, <<"MLW", "meanLowWater", 5>>,
      <<"MLLW", "meanLowerLowWater", 12>>, <<"LW", "lowWater", 13>>, <<"MHW", "meanHighWater", 16>>,
      <<"MHWS", "meanHighWaterSprings", 17>>, <<"MHHW", "meanHigherHighWater", 21>>,
      <<"LAT", "lowestAstronomicalTide", 23>>, <<"HAT", "highestAstronomicalTide", 30>> }

(* C11: setting vertical_datum by an alias stores, and the accessor gives   *)
(* back, the long-form member of the alias's value; vertical_datum_create   *)
(* gives meanLowerLowWater.                                                  *)
C11_AliasYieldsLongForm ==
    /\ \A a \in VerticalDatumAliases :
          (last.op = "vertical_datum" /\ last.arg = EnumStr(a[1])) =>
              /\ last.err = "none"
              /\ rootAttrs[vertical_datum_attribute_name] = EnumName(a[2], a[3])
              /\ vertical_datum_get(rootAttrs) = [err |-> "none", val |-> EnumMember(EnumName(a[2], a[3]))]
    /\ last.op = "vertical_datum_create" =>
          /\ last.err = "none"
          /\ vertical_datum_get(rootAttrs).val.name = "meanLowerLowWater"
    /\ (last.op = "vertical_datum_get" /\ last.err = "none") =>
          /\ ret.name = rootAttrs[vertical_datum_attribute_name].name
          /\ \A a \in VerticalDatumAliases : ret.name # a[1]

\* root.vertical_datum = "MLLW"
C11_Witness ==
    /\ last.op = "vertical_datum"
    /\ last.arg = EnumStr("MLLW")
    /\ last.err = "none"
    /\ rootAttrs[vertical_datum_attribute_name] = EnumName("meanLowerLowWater", 12)

---------------------------------------------------------------------------
(* Properties of the ingestion of arrays *)

\* the values object of the first data group of the first coverage instance:
\* <<>> while there is none, <<grids>> once the grids are assigned
StoredValues(file) ==
    IF Len(file.coverages) >= 1 /\ Len(file.coverages[1].groups) >= 1
    THEN file.coverages[1].groups[1].values
    ELSE <<>>

FromArraysCalled == last.op = "from_arrays"

ShapeMismatch ==
    /\ FromArraysCalled
    /\ last.arg.uncert_grid # None
    /\ shape(last.arg.depth_grid) # shape(last.arg.uncert_grid)

(* C12: from_arrays with an uncertainty grid whose shape differs from the   *)
(* depth grid's raises S102Exception; neither grid is assigned to the       *)
(* values object, which is as it was before the call, and nothing is        *)
(* written.                                                                  *)
C12_ShapeMismatchFails ==
    ShapeMismatch =>
        /\ last.err = "S102Exception"
        /\ StoredValues(dataFile) = StoredValues(last.before.file)
        /\ dataFile.io = last.before.file.io

\* a (1, 2) depth grid with a (2, 2) uncertainty grid, handed to a file that
\* holds the grids of an earlier call
C12_Witness ==
    /\ ShapeMismatch
    /\ shape(last.arg.depth_grid) = <<1, 2>>
    /\ shape(last.arg.uncert_grid) = <<2, 2>>
    /\ last.err = "S102Exception"
    /\ Len(StoredValues(last.before.file)) = 1
    /\ StoredValues(dataFile) = StoredValues(last.before.file)

\* the grid as from_arrays mirrors it
Mirrored(grid, flip_x, flip_y) ==
    LET x == IF flip_x THEN fliplr(grid) ELSE grid
    IN  IF flip_y THEN flipud(x) ELSE x

\* the cell holds the caller's nodata marker (nan is the marker of a nan cell)
HoldsMarker(cell, nodata_value) == nodata_value.t # "none" /\ cell = number(nodata_value)

\* the grid with the declared fill value in every cell that held the marker
Filled(grid, nodata_value, fill) ==
    [i \in 1..Len(grid) |-> [j \in 1..Len(grid[i]) |->
        IF HoldsMarker(grid[i][j], nodata_value) THEN fill ELSE grid[i][j]]]

\* the declared fill value of a feature-information row
DeclaredFill(row) == number(fill_value_get(dataFile.rows[row]).val)

(* C16: after from_arrays every cell of the stored depth grid and of the     *)
(* stored uncertainty grid that held the nodata marker holds the declared    *)
(* fill value of its row (the first for depth, the second for uncertainty),  *)
(* and every other cell is unchanged.                                        *)
C16_NodataCellsHoldFill ==
    (FromArraysCalled /\ last.err = "none" /\ last.arg.uncert_grid # None) =>
        LET a == last.arg
            grid == StoredValues(dataFile)[1]
        IN  /\ grid.depth = Filled(Mirrored(a.depth_grid, a.flip_x, a.flip_y), a.nodata_value, DeclaredFill(1))
            /\ grid.uncertainty = Filled(Mirrored(a.uncert_grid, a.flip_x, a.flip_y), a.nodata_value, DeclaredFill(2))

\* the fields of the coverage instance that from_arrays assigns or deletes
\* itself, whatever overwrite is
AssignedByFromArrays ==
    DeletedEarly \cup DeletedLate \cup {"numGRP", "numPointsLatitudinal", "numPointsLongitudinal", "startSequence"}

\* every field set in before holds the same value in after
Kept(before, after, fields) ==
    \A k \in DOMAIN before \cap fields : Has(after, k) /\ after[k] = before[k]

(* C17: from_arrays with overwrite = FALSE leaves every field that was set   *)
(* before the call as it was: the fields of the root, and the fields of the  *)
(* first coverage instance that from_arrays does not assign itself.          *)
C17_SetFieldsKept ==
    (FromArraysCalled /\ ~last.arg.overwrite) =>
        /\ Kept(last.before.root, rootAttrs, DOMAIN RootDefaults)
        /\ Len(last.before.file.coverages) >= 1 =>
              Kept(last.before.file.coverages[1].attrs, dataFile.coverages[1].attrs,
                   DOMAIN InstanceDefaults \ AssignedByFromArrays)

\* the depth grid has a cell that does not hold the nodata marker
HasDepth(depth_grid, nodata_value) == not_equal(depth_grid, nodata_value) # {}

(* C18: from_arrays with uncert_grid = None never raises the shape-mismatch  *)
(* error and, for a depth grid with at least one cell that is not nodata,     *)
(* completes the ingestion, storing an uncertainty grid of the depth grid's   *)
(* shape.                                                                      *)
C18_NoUncertaintyCompletes ==
    (FromArraysCalled /\ last.arg.uncert_grid = None) =>
        /\ last.err # "S102Exception"
        /\ HasDepth(last.arg.depth_grid, last.arg.nodata_value) =>
              /\ last.err = "none"
              /\ shape(StoredValues(dataFile)[1].uncertainty) = shape(last.arg.depth_grid)

\* the codes of the rows of a feature-information list, in index order
Codes(list) == [i \in 1..Len(list) |-> getitem(list, i - 1).item[1]["code"]]

\* create_s102, or from_arrays through it, has filled a file that held no row
FreshFileFilled ==
    /\ last.op \in {"create_s102", "from_arrays"}
    /\ last.before.file.rows = <<>>
    /\ last.before.file.tracking = <<>>

(* C23: the items of a list are at the indices of their append order: after  *)
(* create_s102 on a fresh file index 0 of the bathymetry feature-information *)
(* list is the DEPTH row and index 1 the UNCERTAINTY row, and the tracking   *)
(* list holds X, Y, originalValue, trackCode, listSeries in that order; on a *)
(* file that held rows the new rows follow them; an index past the end of a  *)
(* list, index 0 of an empty list included, raises IndexError.               *)
C23_AppendOrder ==
    /\ FreshFileFilled =>
          /\ getitem(dataFile.rows, 0).item[1]["code"] = "depth"
          /\ getitem(dataFile.rows, 1).item[1]["code"] = "uncertainty"
          /\ Codes(dataFile.rows) = <<"depth", "uncertainty">>
          /\ Codes(dataFile.tracking) = <<"X", "Y", "originalValue", "trackCode", "listSeries">>
    /\ last.op \in {"create_s102", "from_arrays"} =>
          /\ Len(dataFile.rows) = Len(last.before.file.rows) + 2
          /\ SubSeq(Codes(dataFile.rows), 1, Len(last.before.file.rows)) = Codes(last.before.file.rows)
          /\ SubSeq(Codes(dataFile.rows), Len(last.before.file.rows) + 1, Len(dataFile.rows))
                = <<"depth", "uncertainty">>
    /\ getitem(dataFile.rows, Len(dataFile.rows)).err = "IndexError"
    /\ getitem(dataFile.coverages, 0).err = "IndexError" <=> dataFile.coverages = <<>>

\* create_s102 on a fresh file
C23_Witness ==
    /\ last.op = "create_s102"
    /\ FreshFileFilled
    /\ Len(dataFile.rows) = 2
    /\ dataFile.rows[1]["code"] = "depth"
    /\ dataFile.rows[2]["code"] = "uncertainty"
    /\ Len(dataFile.tracking) = 5
    /\ dataFile.tracking[5]["code"] = "listSeries"
    /\ getitem(dataFile.coverages, 0).err = "IndexError"

\* the grid reversed along the axis whose length from_arrays records as
\* numPointsLongitudinal (axis 0, line 183) when flip_x is set, and along the
\* axis whose length it records as numPointsLatitudinal (axis 1, line 182)
\* when flip_y is set
MirroredOnRecordedAxes(grid, flip_x, flip_y) ==
    LET x == IF flip_x THEN [i \in 1..Len(grid) |-> grid[Len(grid) + 1 - i]] ELSE grid
    IN  IF flip_y THEN [i \in 1..Len(x) |-> [j \in 1..Len(x[i]) |-> x[i][Len(x[i]) + 1 - j]]] ELSE x

(* C25: from_arrays records the length of axis 0 as numPointsLongitudinal    *)
(* and that of axis 1 as numPointsLatitudinal; flip_x reverses both grids    *)
(* along the longitudinal axis and flip_y along the latitudinal axis; with   *)
(* neither flag the stored grids are the inputs with the nodata substitution *)
(* applied.                                                                  *)
C25_FlipsAlongRecordedAxes ==
    (FromArraysCalled /\ last.err = "none" /\ last.arg.uncert_grid # None) =>
        LET a == last.arg
            attrs == dataFile.coverages[1].attrs
            expected == substitute_fill(MirroredOnRecordedAxes(a.depth_grid, a.flip_x, a.flip_y),
                                        MirroredOnRecordedAxes(a.uncert_grid, a.flip_x, a.flip_y),
                                        a.nodata_value, dataFile.rows)
        IN  /\ attrs["numPointsLongitudinal"] = shape(a.depth_grid)[1]
            /\ attrs["numPointsLatitudinal"] = shape(a.depth_grid)[2]
            /\ StoredValues(dataFile)[1] = expected

\* the optional attributes of a coverage instance that from_arrays unsets
\* the length a list has after its item 0 was found or made
FoundOrMade(before) == IF before = <<>> THEN 1 ELSE Len(before)

\* the data groups the first coverage instance held before the call
GroupsBefore ==
    IF last.before.file.coverages = <<>> THEN <<>> ELSE last.before.file.coverages[1].groups

(* C30: from_arrays finds or makes the first coverage instance and its first *)
(* data group: an item is appended only to an empty list, and otherwise the  *)
(* list keeps its length; after the call numInstances = 1 is the number of   *)
(* coverage instances and numGRP = 1 the number of data groups of the first. *)
C30_GetOrCreate ==
    FromArraysCalled =>
        /\ Len(dataFile.coverages) = FoundOrMade(last.before.file.coverages)
        /\ Len(dataFile.coverages[1].groups) = FoundOrMade(GroupsBefore)
        /\ dataFile.container["numInstances"] = 1
        /\ Len(dataFile.coverages) = dataFile.container["numInstances"]
        /\ dataFile.coverages[1].attrs["numGRP"] = 1
        /\ Len(dataFile.coverages[1].groups) = dataFile.coverages[1].attrs["numGRP"]

\* from_arrays on a file that holds nothing
C30_Witness ==
    /\ FromArraysCalled
    /\ last.err = "none"
    /\ last.before.file = EmptyFile
    /\ Len(dataFile.coverages) = 1
    /\ dataFile.container["numInstances"] = 1
    /\ Len(dataFile.coverages[1].groups) = 1
    /\ dataFile.coverages[1].attrs["numGRP"] = 1
    /\ dataFile.coverages[1].groups[1].values # <<>>

UnsetKeys ==
    {"gridSpacingVertical", "gridOriginVertical", "numberOfTimes", "timeRecordInterval",
     "dateTimeOfFirstRecord", "dateTimeOfLastRecord", "numPointsVertical",
     "verticalExtent.minimumZ", "verticalExtent.maximumZ"}

\* the call got past the shape check of line 180
PastShapeCheck == FromArraysCalled /\ last.err \notin {"S102Exception", "TypeError"}

(* C21: an optional attribute that was set and is then unset is absent from  *)
(* the attribute map, which is as if the attribute had never been set: after *)
(* from_arrays none of gridSpacingVertical, gridOriginVertical,              *)
(* numberOfTimes, timeRecordInterval, dateTimeOfFirstRecord,                 *)
(* dateTimeOfLastRecord, numPointsVertical, verticalExtent.minimumZ and      *)
(* verticalExtent.maximumZ is a key of the first coverage instance.          *)
C21_UnsetKeysAbsent ==
    PastShapeCheck =>
        LET attrs == dataFile.coverages[1].attrs
        IN  /\ \A k \in UnsetKeys : ~Has(attrs, k)
            /\ \A k \in UnsetKeys : DelAll(Put(attrs, k, 0), {k}) = attrs

\* a call that found numPointsVertical set on the instance, left there by a
\* call that failed the shape check
C21_Witness ==
    /\ FromArraysCalled
    /\ last.err = "none"
    /\ ~last.arg.overwrite
    /\ Len(last.before.file.coverages) >= 1
    /\ Has(last.before.file.coverages[1].attrs, "numPointsVertical")
    /\ ~Has(dataFile.coverages[1].attrs, "numPointsVertical")
    /\ Has(dataFile.coverages[1].attrs, "numPointsLongitudinal")

---------------------------------------------------------------------------
(* Properties of the ingestion of arrays with their metadata *)

MaxCode == 32800    \* the datum codes 0..MaxCode are put to the validation

WithMetadataCalled == last.op = "from_arrays_with_metadata"

\* the call got past from_arrays: the grids have one shape
PastFromArrays ==
    /\ WithMetadataCalled
    /\ shape(last.arg.depth_grid) = shape(last.arg.uncert_grid)

\* the codes the S-102 product specification allows
AllowList == {4326, 5041, 5042} \cup 32601..32660 \cup 32701..32760

\* the codes 0..MaxCode that lines 315-320 store
AcceptedCodes ==
    { code \in 0..MaxCode :
        LET r == metadata_datum_value([file |-> EmptyFile, root |-> EmptyDict, err |-> "none"],
                                      Put(EmptyDict, "horizontalDatumValue", PyInt(code)), FALSE)
        IN  r.err = "none" /\ r.root = Put(EmptyDict, "horizontalDatumValue", code) }

DatumSupplied == PastFromArrays /\ Has(last.arg.metadata, "horizontalDatumValue")
SuppliedCode == py_int(last.arg.metadata["horizontalDatumValue"]).x

\* root.horizontal_datum_value, <<>> while it is not set
DatumValue(attrs) == IF Has(attrs, "horizontalDatumValue") THEN <<attrs["horizontalDatumValue"]>> ELSE <<>>

\* the root as the from_arrays call of line 286 left it
RootAfterFromArrays ==
    from_arrays([file |-> last.before.file, root |-> last.before.root, err |-> "none"],
                last.arg.depth_grid, last.arg.uncert_grid, last.arg.nodata_value,
                FALSE, FALSE, last.arg.overwrite).root

DatumLeftOut == PastFromArrays /\ ~Has(last.arg.metadata, "horizontalDatumValue")

Bounds(attrs) ==
    [west |-> attrs["westBoundLongitude"], east |-> attrs["eastBoundLongitude"],
     south |-> attrs["southBoundLatitude"], north |-> attrs["northBoundLatitude"]]

\* the node-registered box of a grid of shape shp: the far corner is
\* res * (n - 1) away from the origin
NodeBox(shp, origin, res) ==
    LET far_x == origin[1] + res[1] * (shp[1] - 1)
        far_y == origin[2] + res[2] * (shp[2] - 1)
    IN  [west |-> IF far_x < origin[1] THEN far_x ELSE origin[1],
         east |-> IF far_x < origin[1] THEN origin[1] ELSE far_x,
         south |-> IF far_y < origin[2] THEN far_y ELSE origin[2],
         north |-> IF far_y < origin[2] THEN origin[2] ELSE far_y]

(* C14: the bounding box is node-registered: west and east are the min and   *)
(* max of x0 and x0 + rx*(nx-1), south and north those of y0 and             *)
(* y0 + ry*(ny-1); west <= east and south <= north; the root and the first   *)
(* coverage instance hold the same four bounds; shape (100,50), origin       *)
(* (10,20), resolution (0.5,-0.5) give west 10, east 59.5, south -4.5,       *)
(* north 20 (numbers in tenths).                                             *)
C14_NodeRegisteredBox ==
    /\ bounding_box(<<100, 50>>, <<100, 200>>, <<5, 0 - 5>>)
            = [minx |-> 100, maxx |-> 595, miny |-> 0 - 45, maxy |-> 200]
    /\ PastFromArrays =>
          LET box == NodeBox(shape(last.arg.depth_grid), last.arg.metadata["origin"], last.arg.metadata["res"])
          IN  /\ Bounds(rootAttrs) = box
              /\ Bounds(dataFile.coverages[1].attrs) = box
              /\ box.west <= box.east
              /\ box.south <= box.north

\* a (2, 2) grid at (10, 20) with resolution (0.5, -0.5): west 10, east 10.5,
\* south 19.5, north 20
C14_Witness ==
    /\ PastFromArrays
    /\ last.err = "none"
    /\ shape(last.arg.depth_grid) = <<2, 2>>
    /\ last.arg.metadata["res"] = <<5, 0 - 5>>
    /\ Bounds(rootAttrs) = [west |-> 100, east |-> 105, south |-> 195, north |-> 200]
    /\ Bounds(dataFile.coverages[1].attrs) = Bounds(rootAttrs)

\* the grids from_arrays stores when it is handed the flips the signs of the
\* resolution ask for
StoredWithFlips(flip_x, flip_y) ==
    StoredValues(from_arrays([file |-> last.before.file, root |-> last.before.root, err |-> "none"],
                             last.arg.depth_grid, last.arg.uncert_grid, last.arg.nodata_value,
                             flip_x, flip_y, last.arg.overwrite).file)

(* C15: from_arrays is handed flip_x = TRUE exactly when the x resolution is *)
(* negative and flip_y = TRUE exactly when the y resolution is negative, and  *)
(* the grid spacings stored are the absolute values of the resolutions.       *)
C15_FlipsFollowSigns ==
    PastFromArrays =>
        LET res == last.arg.metadata["res"]
            attrs == dataFile.coverages[1].attrs
        IN  /\ StoredValues(dataFile) = StoredWithFlips(res[1] < 0, res[2] < 0)
            /\ attrs["gridSpacingLongitudinal"] = (IF res[1] < 0 THEN 0 - res[1] ELSE res[1])
            /\ attrs["gridSpacingLatitudinal"] = (IF res[2] < 0 THEN 0 - res[2] ELSE res[2])
            /\ attrs["gridSpacingLongitudinal"] >= 0
            /\ attrs["gridSpacingLatitudinal"] >= 0

\* resolution (0.5, -0.5): the grid is stored upside down and not mirrored
\* left to right, with spacings 0.5 and 0.5
C15_Witness ==
    /\ PastFromArrays
    /\ last.err = "none"
    /\ last.arg.metadata["res"] = <<5, 0 - 5>>
    /\ last.arg.depth_grid = <<<<10, NoData>>, <<Fill, 20>>>>
    /\ StoredValues(dataFile)[1].depth = <<<<Fill, 20>>, <<10, Fill>>>>
    /\ StoredValues(dataFile) # StoredWithFlips(FALSE, FALSE)
    /\ StoredValues(dataFile) # StoredWithFlips(TRUE, TRUE)
    /\ StoredValues(dataFile) # StoredWithFlips(TRUE, FALSE)
    /\ dataFile.coverages[1].attrs["gridSpacingLatitudinal"] = 5

\* the fields of the root that lines 313-338 assign
MetadataFields ==
    {"horizontalDatumReference", "horizontalDatumValue", "epoch", "geographicIdentifier",
     "issueDate", "metadata"}

(* C22: from_arrays_with_metadata calls the container's write() once and     *)
(* flush() right after it, as its last two steps, when the shapes and the    *)
(* datum code were accepted and every attribute was assigned; a call that    *)
(* fails a validation calls neither.                                         *)
C22_WriteOnceAfterValidation ==
    WithMetadataCalled =>
        /\ dataFile.io = last.before.file.io \o (IF last.err = "none" THEN <<"write", "flush">> ELSE <<>>)
        /\ last.err = "none" =>
              /\ shape(last.arg.depth_grid) = shape(last.arg.uncert_grid)
              /\ Has(last.arg.metadata, "horizontalDatumValue") => SuppliedCode \in AllowList
              /\ MetadataFields \subseteq DOMAIN rootAttrs
              /\ Has(dataFile.coverages[1].groups[1].attrs, "axisNames")
        /\ (~PastFromArrays \/ (Has(last.arg.metadata, "horizontalDatumValue") /\ SuppliedCode \notin AllowList)) =>
              /\ last.err # "none"
              /\ dataFile.io = last.before.file.io

\* a call that is written out, on a file that an earlier, rejected call left
\* unwritten
C22_Witness ==
    /\ WithMetadataCalled
    /\ last.err = "none"
    /\ Len(last.before.file.rows) = 2
    /\ last.before.file.io = <<>>
    /\ dataFile.io = <<"write", "flush">>

---------------------------------------------------------------------------
(* Properties of the ingestion of rasters *)

\* the values from_gdal derives from the raster
Derived(raster) ==
    [k \in {"horizontalDatumReference", "horizontalDatumValue", "origin", "res"} |->
        CASE k = "horizontalDatumReference" -> "EPSG"
          [] k = "horizontalDatumValue" -> PyInt(py_int(raster.epsg).x)
          [] k = "origin" -> <<raster.geotransform.ulx + half(raster.geotransform.dxx),
                               raster.geotransform.uly + half(raster.geotransform.dyy)>>
          [] k = "res" -> <<raster.geotransform.dxx, raster.geotransform.dyy>>]

\* the raster is north up
NorthUp(raster) == raster.geotransform.dxy = 0 /\ raster.geotransform.dyx = 0

\* the state a call found
Found == [file |-> last.before.file, root |-> last.before.root, err |-> "none"]

(* C19: in from_gdal every metadata key the caller supplies is used as       *)
(* supplied, and a value derived from the raster is used only for a key the  *)
(* caller did not supply; last.io is the metadata handed to                  *)
(* from_arrays_with_metadata.                                                *)
C19_SuppliedKeysOverride ==
    (last.op = "from_gdal" /\ Len(last.arg.metadata) = 1 /\ NorthUp(last.arg.input)) =>
        LET supplied == last.arg.metadata[1]
            used == last.io
        IN  /\ \A k \in DOMAIN supplied : used[k] = supplied[k]
            /\ \A k \in DOMAIN Derived(last.arg.input) \ DOMAIN supplied :
                  used[k] = Derived(last.arg.input)[k]
            /\ (last.err = "none" /\ Has(supplied, "horizontalDatumValue")) =>
                  rootAttrs["horizontalDatumValue"] = py_int(supplied["horizontalDatumValue"]).x

(* C20: a from_gdal or from_bag call made without a metadata argument uses   *)
(* values derived from its own raster only: its result is the result of the  *)
(* same call on the same file with an empty metadata dict, whatever calls    *)
(* preceded it.                                                              *)
C20_CallsShareNothing ==
    /\ (last.op = "from_gdal" /\ Len(last.arg.metadata) = 0) =>
          LET alone == from_gdal(Found, last.arg.input, EmptyDict)
          IN  /\ last.io = alone.metadata
              /\ last.err = alone.err
              /\ dataFile = alone.file
              /\ rootAttrs = alone.root
    /\ (last.op = "from_bag" /\ Len(last.arg.metadata) = 0) =>
          LET alone == from_bag(Found, last.arg.input, EmptyDict)
          IN  /\ last.io = alone.metadata
              /\ last.err = alone.err
              /\ dataFile = alone.file
              /\ rootAttrs = alone.root

=============================================================================
